---- MODULE Spec2Model ----
(***************************************************************************)
(* Model of the session-scoped event-streaming core of Saqr:              *)
(*   - ReActCallback's operation queue (agent/dspy/callback.py)           *)
(*   - RedisSessionManager / RedisStorage (infrastructure/caching/redis.py)*)
(* Coroutines are modelled at the granularity of the asyncio event loop:  *)
(* one action is the code a task runs between two suspension points.      *)
(***************************************************************************)
EXTENDS Integers, Sequences, FiniteSets, TLC

(***************************************************************************)
(* Bounds                                                                  *)
(***************************************************************************)
\* number of operations one turn hands to _queue_operation
MaxOps == 4
\* number of internal suspension points of one operation_func
MaxIO == 2

Ops == 1..MaxOps

\* The quotas of redis.py, scaled down so that TLC reaches them:
\* MAX_MEMORY_PER_SESSION_MB * 1024 * 1024 bytes (redis.py:12, :126)
MaxMemoryBytes == 12
\* MAX_CHATS_PER_SESSION (redis.py:13)
MaxChatsPerSession == 1
\* MAX_MESSAGES_PER_CHAT (redis.py:14)
MaxMessagesPerChat == 2
\* readings of the clock, datetime.now(timezone.utc), are 1..MaxTime
MaxTime == 2
\* SESSION_EXPIRE_MINUTES * 60 seconds (redis.py:11), in readings of the clock;
\* at least MaxTime, so that no key expires while the clock is within 1..MaxTime
SessionExpireTicks == 2
\* number of WebSocket connections that are opened
MaxSockets == 2
\* readings of the clock when sessions are followed past their expiry
\* ChatEvent documents a room gets, and ChatService calls made on them
MaxEvents == 2
MaxEventOps == 4

MaxLifeTime == 2 * SessionExpireTicks + 1

VARIABLES
    \* ---- ReActCallback (one turn) ----
    operation_queue,    \* self.operation_queue: sequence of pending operations
    processing_queue,   \* self.processing_queue
    enqueued,           \* number of _queue_operation calls made so far
    drain_task,         \* state of the task created by the k-th _queue_operation call
    current_op,         \* operation whose operation_func the task is awaiting (0: none)
    op_io,              \* suspension points the awaited operation has passed
    executed,           \* operations in the order operation_func was called
    failed,             \* operations whose operation_func raised
    op_closure,         \* what the operation_func of the k-th operation does
    call_id_to_tool,    \* self._call_id_to_tool: call_id -> tool_name ("": no entry)
    tool_message_ids,   \* self.tool_message_ids: tool_name -> message id (0: no entry)
    tool_made,          \* the tool_message_id create_tool_message drew, per call_id
    turn,               \* process_user_message: running, returned, or error sent
    \* ---- Redis, under one session token ----
    session,            \* hash session:{token}: <<>> when the key is absent;
                        \* expires_at is the key's expiry (0: none), not a field
    chats,              \* hash session:{token}:chat:{id}, per chat id
    messages,           \* hash session:{token}:chat:{id}:message:{mid}
    screenshots,        \* hash session:{token}:screenshot:{sid}
    now,                \* the clock
    \* ---- coroutines running RedisStorage methods ----
    pc,                 \* the await each coroutine is suspended at ("idle": none)
    call,               \* the arguments and locals of the running method
    result,             \* how the method that finished last returned or raised
    \* ---- WebSocketRepository ----
    active_connections, \* self.active_connections: per room <<>> (no entry) or <<list>>
    ws_state,           \* each WebSocket's endpoint: before handle_connect, open, closed
    broadcast,          \* the locals of each running broadcast_to_chat
    registry_result,    \* what the registry call that finished last did
    \* ---- ChatService and the chat_events collection ----
    chat_events,        \* the ChatEvent documents of the room, per event id
    ev_clock,           \* ChatService calls begun so far: the instant of a call
    ev_call,            \* the arguments and locals of the running ChatService method
    ev_result,          \* what the ChatService method that finished last returned
    ev_sent             \* the event last handed to broadcast_to_chat (<<>>: none yet)

seqVars == <<operation_queue, processing_queue, enqueued, drain_task,
             current_op, op_io, executed, failed,
             op_closure, call_id_to_tool, tool_message_ids, tool_made, turn>>

storeVars == <<session, chats, messages, screenshots, now, pc, call, result>>

registryVars == <<active_connections, ws_state, broadcast, registry_result>>

eventVars == <<chat_events, ev_clock, ev_call, ev_result, ev_sent>>

vars == <<seqVars, storeVars, registryVars, eventVars>>

(***************************************************************************)
(* Values                                                                  *)
(***************************************************************************)
\* An optional value (a Redis key that may be absent, a Python Optional) is a
\* sequence: <<>> for absent/None, <<v>> for v.
None == <<>>
Some(v) == <<v>>

\* the elements of a list
Range(s) == {s[i] : i \in 1..Len(s)}

\* A str is the sequence of its Unicode code points.
\* bytes of one code point in str.encode('utf-8')
Utf8Width(cp) ==
    IF cp < 128 THEN 1 ELSE IF cp < 2048 THEN 2 ELSE IF cp < 65536 THEN 3 ELSE 4

RECURSIVE Utf8Len(_)
\* len(content.encode('utf-8'))
Utf8Len(str) == IF str = <<>> THEN 0 ELSE Utf8Width(Head(str)) + Utf8Len(Tail(str))

\* A dict is a sequence of <<key, value>> pairs of ASCII strings.
RECURSIVE JsonItemsLen(_)
JsonItemsLen(items) ==
    IF items = <<>> THEN 0
    ELSE Len(Head(items)[1]) + Len(Head(items)[2]) + 6
         + (IF Tail(items) = <<>> THEN 0 ELSE 2) + JsonItemsLen(Tail(items))

\* json.dumps(d): the text, kept as the object it spells and its length;
\* '{"k": "v"}' has 10 characters, '{}' has 2
JsonDumps(items) == [len |-> 2 + JsonItemsLen(items), obj |-> items]
\* the empty str ""
EmptyStr == [len |-> 0, obj |-> <<>>]
\* json.loads(text)
JsonLoads(text) == text.obj

\* truth value of an Optional[Dict]: None and {} are false
Truthy(metadata) == metadata # None /\ metadata[1] # <<>>

\* "json.dumps(metadata) if metadata else ''"
StoredMetadata(metadata) == IF Truthy(metadata) THEN JsonDumps(metadata[1]) ELSE EmptyStr

\* "json.loads(m['metadata']) if m['metadata'] else {}"
LoadedMetadata(text) == IF text.len > 0 THEN JsonLoads(text) ELSE <<>>

\* the three dots appended to a truncated preview
Dots == <<46, 46, 46>>
\* "content[:100] + '...' if len(content) > 100 else content"
Preview(content) ==
    IF Len(content) > 100 THEN SubSeq(content, 1, 100) \o Dots ELSE content

\* add_message: message_size
MessageSizeChars(content, metadata) ==
    Len(content) + (IF Truthy(metadata) THEN JsonDumps(metadata[1]).len ELSE 0)
MessageSize(content, metadata) ==
    Utf8Len(content) + (IF Truthy(metadata) THEN JsonDumps(metadata[1]).len ELSE 0)

\* check_memory_limit: "(current_usage + additional_bytes) <= max_bytes"
WithinLimitIgnoringNew(current_usage, additional_bytes) ==
    current_usage <= MaxMemoryBytes
WithinMemoryLimit(current_usage, additional_bytes) ==
    (current_usage + additional_bytes) <= MaxMemoryBytes

\* create_chat: "session['chat_count'] >= MAX_CHATS_PER_SESSION"
ChatLimitOffByOne(chat_count) == chat_count > MaxChatsPerSession
ChatLimitReached(chat_count) == chat_count >= MaxChatsPerSession

\* add_message: "chat['message_count'] >= MAX_MESSAGES_PER_CHAT"
MessageLimitOffByOne(message_count) == message_count > MaxMessagesPerChat
MessageLimitReached(message_count) == message_count >= MaxMessagesPerChat

\* "if timestamp is None: timestamp = datetime.now(timezone.utc).isoformat()"
TimestampOrNow(timestamp, clock) == IF timestamp = None THEN clock ELSE timestamp[1]

\* upsert_message: the timestamp handed to update_message for an existing message
UpsertCallerTimestamp(existing_message, timestamp) == timestamp
UpsertUpdateTimestamp(existing_message, timestamp) == Some(existing_message.timestamp)

\* "if not session_raw: return None"
SessionFoundAlways(session_raw) == TRUE
SessionFound(session_raw) == session_raw # None

\* "expire(session_key, SESSION_EXPIRE_MINUTES * 60)": the key's new expiry
KeepsExpiry(expires_at, clock) ==
    IF expires_at = 0 THEN clock + SessionExpireTicks ELSE expires_at
SlidingExpiry(expires_at, clock) == clock + SessionExpireTicks

\* get_chat_events: the ChatEvent a stored message is reported as
ChatEventOf(msg) ==
    [id |-> msg.id,
     author |-> IF msg.role = "user" THEN "user" ELSE "agent",
     content |-> msg.content,
     created_at |-> msg.timestamp,
     updated_at |-> msg.timestamp]

(***************************************************************************)
(* Inputs                                                                  *)
(***************************************************************************)
Procs == {"p1", "p2"}
Times == 1..MaxTime
\* room ids (uuid4): create_chat draws an unused one
ChatIds == 1..(MaxChatsPerSession + 2)
\* the room the message and screenshot calls are made on
MessageChatIds == {1}
\* message ids given by callers, and the uuid4 made when none is given
CallerMessageIds == {"m1"}
GeneratedMessageIds == {"u1"}
MessageIds == CallerMessageIds \cup GeneratedMessageIds
ScreenshotIds == {"s1"}
\* "a" (1 byte in UTF-8) and "e-acute" (2 bytes)
Contents == {<<97>>, <<233>>}
\* None and {"k": "v"}
Metadatas == {None, Some(<< <<"k", "v">> >>)}
\* the role a caller gives: the default of add_message, of upsert_message
AddRoles == {"user"}
UpsertRoles == {"agent"}
\* None, or the ISO form of an instant
TimestampArgs == {None, Some(1)}
\* screenshot_data: one byte, three bytes
ScreenshotDatas == {<<0>>, <<0, 0, 0>>}
\* the name update_chat_name is given (the names create_chat makes are 1, 2, ...)
NewNames == {0}
\* the windows get_messages is asked for
Limits == {1, 2}
Offsets == {0, 1, 2}
\* the limit delete_chat hands to get_messages
DeleteChatMessageLimit == 10000

NoCall ==
    [op |-> "none", via |-> "none", chat_id |-> 0, message_id |-> None,
     content |-> <<>>, role |-> "", metadata |-> None, timestamp |-> None,
     size |-> 0, read |-> None, fresh |-> "", fresh_chat |-> 0, chat |-> None, data |-> <<>>,
     keys |-> {}, msgs |-> <<>>, shots |-> {}, pipe |-> {}, name |-> 0,
     object_id |-> 0, todo |-> {}, chats |-> {}, limit |-> 0, offset |-> 0, found |-> {}]

NoResult == [op |-> "none", status |-> "none"]

\* state before create_session: an empty Redis and idle coroutines
StoreInit ==
    /\ session = None
    /\ chats = [c \in ChatIds |-> None]
    /\ messages = [c \in MessageChatIds |-> [m \in MessageIds |-> None]]
    /\ screenshots = [s \in ScreenshotIds |-> None]
    /\ now = 1
    /\ pc = [p \in Procs |-> "idle"]
    /\ call = [p \in Procs |-> NoCall]
    /\ result = NoResult

\* state after create_session and one create_chat, at the first reading of the
\* clock: a session with one empty room
RoomInit ==
    /\ session = Some([created_at |-> 1, last_accessed |-> 1,
                        chat_count |-> 1, memory_usage_bytes |-> 0,
                        expires_at |-> SlidingExpiry(0, 1)])
    /\ chats = [c \in ChatIds |->
                  IF c = 1
                  THEN Some([id |-> 1, name |-> 1, created_at |-> 1, updated_at |-> 1,
                             message_count |-> 0,
                             latest_message_content |-> <<>>,
                             latest_message_timestamp |-> None])
                  ELSE None]
    /\ messages = [c \in MessageChatIds |-> [m \in MessageIds |-> None]]
    /\ screenshots = [s \in ScreenshotIds |-> None]
    /\ now = 1
    /\ pc = [p \in Procs |-> "idle"]
    /\ call = [p \in Procs |-> NoCall]
    /\ result = NoResult

(***************************************************************************)
(* RedisSessionManager and RedisStorage                                    *)
(* One action is one awaited Redis command together with the synchronous   *)
(* code that follows it up to the next await. An "expire" is taken with    *)
(* the write before it (key expiry is not part of this state). A uuid4 is  *)
(* drawn when the call starts: it depends on nothing the call reads.       *)
(***************************************************************************)

\* the coroutine's method returns or raises
Return(p, c, status, branch) ==
    /\ pc' = [pc EXCEPT ![p] = "idle"]
    /\ call' = [call EXCEPT ![p] = NoCall]
    /\ result' = [op |-> c.op, status |-> status]

\* the method returns a value
ReturnValue(p, c, value) ==
    /\ pc' = [pc EXCEPT ![p] = "idle"]
    /\ call' = [call EXCEPT ![p] = NoCall]
    /\ result' = [op |-> c.op, status |-> "ok", value |-> value]

\* the coroutine goes on to its next await (a new call forgets the last result)
Goto(p, c, label) ==
    /\ pc' = [pc EXCEPT ![p] = label]
    /\ call' = [call EXCEPT ![p] = c]
    /\ result' = IF pc[p] = "idle" THEN NoResult ELSE result

\* uuid4 values held by running calls
HeldIds == {call[q].fresh : q \in Procs}
HeldChatIds == {call[q].fresh_chat : q \in Procs}
FreshChatIds == {c \in ChatIds : chats[c] = None /\ c \notin HeldChatIds}
FreshMessageIds(c) == {m \in GeneratedMessageIds : messages[c][m] = None /\ m \notin HeldIds}
FreshScreenshotIds == {i \in ScreenshotIds : screenshots[i] = None /\ i \notin HeldIds}

\* create_session: hset session:{token} and expire (the field token, which
\* nothing reads, is left out); the caller has just made the token, so no
\* session is stored under it
CreateSession ==
    /\ session = None
    /\ session' = Some([created_at |-> now, last_accessed |-> now,
                        chat_count |-> 0, memory_usage_bytes |-> 0,
                        expires_at |-> SlidingExpiry(0, now)])
    /\ UNCHANGED <<chats, messages, screenshots, now, pc, call, result>>
    /\ UNCHANGED <<seqVars, registryVars, eventVars>>

\* the clock advances
Tick ==
    /\ now < MaxTime
    /\ now' = now + 1
    /\ UNCHANGED <<session, chats, messages, screenshots, pc, call, result>>
    /\ UNCHANGED <<seqVars, registryVars, eventVars>>

\* Redis drops a key when its expiry comes
Expired(key, clock) ==
    key # None /\ key[1].expires_at # 0 /\ key[1].expires_at <= clock

\* the clock advances past the expiry of the session key
LifeTick ==
    /\ now < MaxLifeTime
    /\ now' = now + 1
    /\ session' = IF Expired(session, now + 1) THEN None ELSE session
    /\ UNCHANGED <<chats, messages, screenshots, pc, call, result>>
    /\ UNCHANGED <<seqVars, registryVars, eventVars>>

\* get_session: hset last_accessed and expire, after a successful hgetall
\* (hset on a key that is gone makes a hash of that one field)
RefreshSession ==
    session' = IF session = None
               THEN Some([last_accessed |-> now, expires_at |-> SlidingExpiry(0, now)])
               ELSE Some([session[1] EXCEPT
                            !.last_accessed = now,
                            !.expires_at = SlidingExpiry(@, now)])

\* update_memory_usage: hincrby memory_usage_bytes
UpdateMemoryUsage(bytes_delta) ==
    session' = Some([session[1] EXCEPT !.memory_usage_bytes = @ + bytes_delta])

\* ---- create_chat ----
\* get_session's hgetall; "if not session: raise ValueError('Invalid session')"
CreateChatGet(p) ==
    /\ pc[p] = "idle"
    /\ \E id \in FreshChatIds :
         LET c == [NoCall EXCEPT !.op = "create_chat", !.via = "create_chat",
                                 !.fresh_chat = id, !.read = session] IN
         IF session = None
         THEN Return(p, c, "invalid_session", "none")
         ELSE Goto(p, c, "cc_refresh")
    /\ UNCHANGED <<session, chats, messages, screenshots, now>>
    /\ UNCHANGED <<seqVars, registryVars, eventVars>>

\* get_session's refresh, the quota test and the building of chat_data
CreateChatRefresh(p) ==
    /\ pc[p] = "cc_refresh"
    /\ RefreshSession
    /\ LET c == call[p]
           chat_count == c.read[1].chat_count
           chat_data == [id |-> c.fresh_chat, name |-> chat_count + 1,
                         created_at |-> now, updated_at |-> now,
                         message_count |-> 0,
                         latest_message_content |-> <<>>,
                         latest_message_timestamp |-> None] IN
       IF ChatLimitReached(chat_count)
       THEN Return(p, c, "max_chats", "none")
       ELSE Goto(p, [c EXCEPT !.chat = Some(chat_data)], "cc_hset")
    /\ UNCHANGED <<chats, messages, screenshots, now>>
    /\ UNCHANGED <<seqVars, registryVars, eventVars>>

\* hset of the chat hash, and expire
CreateChatHset(p) ==
    /\ pc[p] = "cc_hset"
    /\ chats' = [chats EXCEPT ![call[p].fresh_chat] = call[p].chat]
    /\ Goto(p, call[p], "cc_incr")
    /\ UNCHANGED <<session, messages, screenshots, now>>
    /\ UNCHANGED <<seqVars, registryVars, eventVars>>

\* hincrby chat_count 1
CreateChatIncr(p) ==
    /\ pc[p] = "cc_incr"
    /\ session' = Some([session[1] EXCEPT !.chat_count = @ + 1])
    /\ Return(p, call[p], "ok", "created")
    /\ UNCHANGED <<chats, messages, screenshots, now>>
    /\ UNCHANGED <<seqVars, registryVars, eventVars>>

\* ---- add_message ----
\* message_size, then check_memory_limit -> get_session's hgetall;
\* "if not session: return False" makes add_message raise the memory error
AddGetStep(p, c0) ==
    LET c == [c0 EXCEPT !.size = MessageSize(c0.content, c0.metadata),
                        !.read = session] IN
    /\ IF session = None
       THEN Return(p, c, "memory_limit", "none")
       ELSE Goto(p, c, "am_refresh")
    /\ UNCHANGED <<session, chats, messages, screenshots, now>>
    /\ UNCHANGED <<seqVars, registryVars, eventVars>>

\* a caller calls add_message, with arguments from the given sets
AddMessageFrom(p, contents, metadatas, timestamps) ==
    /\ pc[p] = "idle"
    /\ \E chat_id \in MessageChatIds, content \in contents, role \in AddRoles,
          metadata \in metadatas, timestamp \in timestamps :
         \/ \E message_id \in CallerMessageIds :
              AddGetStep(p, [NoCall EXCEPT !.op = "add_message", !.via = "add_message",
                  !.chat_id = chat_id, !.content = content, !.role = role,
                  !.metadata = metadata, !.timestamp = timestamp,
                  !.message_id = Some(message_id)])
         \/ \E id \in FreshMessageIds(chat_id) :
              AddGetStep(p, [NoCall EXCEPT !.op = "add_message", !.via = "add_message",
                  !.chat_id = chat_id, !.content = content, !.role = role,
                  !.metadata = metadata, !.timestamp = timestamp,
                  !.message_id = None, !.fresh = id])

AddMessage(p) == AddMessageFrom(p, Contents, Metadatas, TimestampArgs)

\* add_message with a two-byte content, with or without metadata, and no timestamp
AddMessageNow(p) == AddMessageFrom(p, {<<233>>}, Metadatas, {None})

\* add_message called by upsert_message
AddGet(p) ==
    /\ pc[p] = "am_get"
    /\ AddGetStep(p, call[p])

\* get_session's refresh and the verdict of check_memory_limit
AddRefresh(p) ==
    /\ pc[p] = "am_refresh"
    /\ RefreshSession
    /\ IF ~WithinMemoryLimit(call[p].read[1].memory_usage_bytes, call[p].size)
       THEN Return(p, call[p], "memory_limit", "none")
       ELSE Goto(p, call[p], "am_chat")
    /\ UNCHANGED <<chats, messages, screenshots, now>>
    /\ UNCHANGED <<seqVars, registryVars, eventVars>>

\* get_chat's hgetall, the message quota, the id and the timestamp
AddChat(p) ==
    /\ pc[p] = "am_chat"
    /\ LET c == call[p]
           chat == chats[c.chat_id] IN
       IF chat = None
       THEN Return(p, c, "chat_not_found", "none")
       ELSE IF MessageLimitReached(chat[1].message_count)
       THEN Return(p, c, "max_messages", "none")
       ELSE Goto(p, [c EXCEPT
                !.chat = chat,
                !.message_id = IF c.message_id = None THEN Some(c.fresh) ELSE @,
                !.timestamp = Some(TimestampOrNow(c.timestamp, now))], "am_hset_msg")
    /\ UNCHANGED <<session, chats, messages, screenshots, now>>
    /\ UNCHANGED <<seqVars, registryVars, eventVars>>

\* hset of the message hash, and expire
AddHsetMessage(p) ==
    /\ pc[p] = "am_hset_msg"
    /\ LET c == call[p]
           message_data == [id |-> c.message_id[1], content |-> c.content,
                            role |-> c.role, timestamp |-> c.timestamp[1],
                            metadata |-> StoredMetadata(c.metadata)] IN
       messages' = [messages EXCEPT ![c.chat_id][c.message_id[1]] = Some(message_data)]
    /\ Goto(p, call[p], "am_hset_chat")
    /\ UNCHANGED <<session, chats, screenshots, now>>
    /\ UNCHANGED <<seqVars, registryVars, eventVars>>

\* (a summary write that also counted the message)
ChatSummaryCounting(chat, content, timestamp) ==
    [chat EXCEPT !.latest_message_content = Preview(content),
                 !.latest_message_timestamp = Some(timestamp),
                 !.updated_at = timestamp,
                 !.message_count = @ + 1]

\* the summary fields a write of a message leaves on its chat
ChatSummary(chat, content, timestamp) ==
    [chat EXCEPT !.latest_message_content = Preview(content),
                 !.latest_message_timestamp = Some(timestamp),
                 !.updated_at = timestamp]

\* hset of the chat's summary fields
AddHsetChat(p) ==
    /\ pc[p] = "am_hset_chat"
    /\ LET c == call[p] IN
       chats' = [chats EXCEPT ![c.chat_id] =
                    Some(ChatSummary(@[1], c.content, c.timestamp[1]))]
    /\ Goto(p, call[p], "am_incr_count")
    /\ UNCHANGED <<session, messages, screenshots, now>>
    /\ UNCHANGED <<seqVars, registryVars, eventVars>>

\* hincrby message_count 1
AddIncrCount(p) ==
    /\ pc[p] = "am_incr_count"
    /\ chats' = [chats EXCEPT ![call[p].chat_id] =
                    Some([@[1] EXCEPT !.message_count = @ + 1])]
    /\ Goto(p, call[p], "am_incr_mem")
    /\ UNCHANGED <<session, messages, screenshots, now>>
    /\ UNCHANGED <<seqVars, registryVars, eventVars>>

\* update_memory_usage(session_token, message_size), and the return
AddIncrMemory(p) ==
    /\ pc[p] = "am_incr_mem"
    /\ UpdateMemoryUsage(call[p].size)
    /\ Return(p, call[p], "ok", "created")
    /\ UNCHANGED <<chats, messages, screenshots, now>>
    /\ UNCHANGED <<seqVars, registryVars, eventVars>>

\* ---- update_message ----
\* hgetall of the message, "raise ValueError(f'Message {message_id} not found')",
\* and the timestamp of the update
UpdateGetStep(p, c) ==
    LET existing_message == messages[c.chat_id][c.message_id[1]] IN
    /\ IF existing_message = None
       THEN Return(p, c, "message_not_found", "none")
       ELSE Goto(p, [c EXCEPT !.read = existing_message,
                              !.timestamp = Some(TimestampOrNow(c.timestamp, now))],
                 "um_hset_msg")
    /\ UNCHANGED <<session, chats, messages, screenshots, now>>
    /\ UNCHANGED <<seqVars, registryVars, eventVars>>

\* a caller calls update_message
UpdateMessage(p) ==
    /\ pc[p] = "idle"
    /\ \E chat_id \in MessageChatIds, message_id \in MessageIds, content \in Contents,
          metadata \in Metadatas, timestamp \in TimestampArgs :
         UpdateGetStep(p, [NoCall EXCEPT !.op = "update_message", !.via = "update_message",
             !.chat_id = chat_id, !.message_id = Some(message_id), !.content = content,
             !.metadata = metadata, !.timestamp = timestamp])

\* update_message called by upsert_message
UpdateGet(p) ==
    /\ pc[p] = "um_get"
    /\ UpdateGetStep(p, call[p])

\* hset of content, metadata and timestamp on the message hash, and expire
UpdateHsetMessage(p) ==
    /\ pc[p] = "um_hset_msg"
    /\ LET c == call[p] IN
       messages' = [messages EXCEPT ![c.chat_id][c.message_id[1]] =
                      Some([@[1] EXCEPT !.content = c.content,
                                        !.metadata = StoredMetadata(c.metadata),
                                        !.timestamp = c.timestamp[1]])]
    /\ Goto(p, call[p], "um_hset_chat")
    /\ UNCHANGED <<session, chats, screenshots, now>>
    /\ UNCHANGED <<seqVars, registryVars, eventVars>>

\* hset of the chat's summary fields
UpdateHsetChat(p) ==
    /\ pc[p] = "um_hset_chat"
    /\ LET c == call[p] IN
       chats' = [chats EXCEPT ![c.chat_id] =
                    Some(ChatSummary(@[1], c.content, c.timestamp[1]))]
    /\ Goto(p, call[p], "um_reread")
    /\ UNCHANGED <<session, messages, screenshots, now>>
    /\ UNCHANGED <<seqVars, registryVars, eventVars>>

\* the closing hgetall, and the return of the message read
UpdateReread(p) ==
    /\ pc[p] = "um_reread"
    /\ Return(p, call[p], "ok", "updated")
    /\ UNCHANGED <<session, chats, messages, screenshots, now>>
    /\ UNCHANGED <<seqVars, registryVars, eventVars>>

\* ---- upsert_message ----
\* the id, the hgetall of the message and the choice of update or add
UpsertGetStep(p, c) ==
    LET existing_message == messages[c.chat_id][c.message_id[1]] IN
    /\ IF existing_message # None
       THEN Goto(p, [c EXCEPT !.via = "update_message",
                              !.timestamp = UpsertUpdateTimestamp(existing_message[1],
                                                                   c.timestamp)],
                 "um_get")
       ELSE Goto(p, [c EXCEPT !.via = "add_message"], "am_get")
    /\ UNCHANGED <<session, chats, messages, screenshots, now>>
    /\ UNCHANGED <<seqVars, registryVars, eventVars>>

\* a caller calls upsert_message, with arguments from the given sets
UpsertMessageFrom(p, contents, metadatas, timestamps) ==
    /\ pc[p] = "idle"
    /\ \E chat_id \in MessageChatIds, content \in contents, role \in UpsertRoles,
          metadata \in metadatas, timestamp \in timestamps :
         \/ \E message_id \in MessageIds :
              UpsertGetStep(p, [NoCall EXCEPT !.op = "upsert_message",
                  !.chat_id = chat_id, !.content = content, !.role = role,
                  !.metadata = metadata, !.timestamp = timestamp,
                  !.message_id = Some(message_id)])
         \/ \E id \in FreshMessageIds(chat_id) :
              UpsertGetStep(p, [NoCall EXCEPT !.op = "upsert_message",
                  !.chat_id = chat_id, !.content = content, !.role = role,
                  !.metadata = metadata, !.timestamp = timestamp,
                  !.message_id = Some(id), !.fresh = id])

UpsertMessage(p) == UpsertMessageFrom(p, Contents, Metadatas, TimestampArgs)

\* upsert_message with a two-byte content, no metadata and no timestamp
UpsertMessageNow(p) == UpsertMessageFrom(p, {<<233>>}, {None}, {None})

\* ---- store_screenshot ----
\* screenshot_size, then check_memory_limit -> get_session's hgetall
StoreScreenshot(p) ==
    /\ pc[p] = "idle"
    /\ \E chat_id \in MessageChatIds, message_id \in CallerMessageIds,
          screenshot_data \in ScreenshotDatas, id \in FreshScreenshotIds :
         LET c == [NoCall EXCEPT !.op = "store_screenshot", !.via = "store_screenshot",
                       !.chat_id = chat_id, !.message_id = Some(message_id),
                       !.data = screenshot_data, !.size = Len(screenshot_data),
                       !.fresh = id, !.read = session] IN
         IF session = None
         THEN Return(p, c, "memory_limit", "none")
         ELSE Goto(p, c, "ss_refresh")
    /\ UNCHANGED <<session, chats, messages, screenshots, now>>
    /\ UNCHANGED <<seqVars, registryVars, eventVars>>

\* get_session's refresh, the verdict of check_memory_limit and the metadata
ScreenshotRefresh(p) ==
    /\ pc[p] = "ss_refresh"
    /\ RefreshSession
    /\ IF ~WithinMemoryLimit(call[p].read[1].memory_usage_bytes, call[p].size)
       THEN Return(p, call[p], "memory_limit", "none")
       ELSE Goto(p, [call[p] EXCEPT !.timestamp = Some(now)], "ss_hset_data")
    /\ UNCHANGED <<chats, messages, screenshots, now>>
    /\ UNCHANGED <<seqVars, registryVars, eventVars>>

\* hset of the field "data"
ScreenshotHsetData(p) ==
    /\ pc[p] = "ss_hset_data"
    /\ screenshots' = [screenshots EXCEPT ![call[p].fresh] =
                          Some([data |-> call[p].data, metadata |-> None])]
    /\ Goto(p, call[p], "ss_hset_meta")
    /\ UNCHANGED <<session, chats, messages, now>>
    /\ UNCHANGED <<seqVars, registryVars, eventVars>>

\* hset of the field "metadata", and expire
ScreenshotHsetMetadata(p) ==
    /\ pc[p] = "ss_hset_meta"
    /\ LET c == call[p]
           screenshot_metadata == [id |-> c.fresh, chat_id |-> c.chat_id,
                                   message_id |-> c.message_id[1],
                                   size_bytes |-> c.size,
                                   created_at |-> c.timestamp[1]] IN
       screenshots' = [screenshots EXCEPT ![c.fresh] =
                          Some([@[1] EXCEPT !.metadata = Some(screenshot_metadata)])]
    /\ Goto(p, call[p], "ss_incr_mem")
    /\ UNCHANGED <<session, chats, messages, now>>
    /\ UNCHANGED <<seqVars, registryVars, eventVars>>

\* update_memory_usage(session_token, screenshot_size), and the return
ScreenshotIncrMemory(p) ==
    /\ pc[p] = "ss_incr_mem"
    /\ UpdateMemoryUsage(call[p].size)
    /\ Return(p, call[p], "ok", "created")
    /\ UNCHANGED <<chats, messages, screenshots, now>>
    /\ UNCHANGED <<seqVars, registryVars, eventVars>>

\* ---- get_session, called by the authentication dependencies ----
\* hgetall; "if not session_raw: return None"
GetSession(p) ==
    /\ pc[p] = "idle"
    /\ LET c == [NoCall EXCEPT !.op = "get_session", !.via = "get_session",
                               !.read = session] IN
       IF SessionFound(session)
       THEN Goto(p, c, "gs_refresh")
       ELSE Return(p, c, "none", "none")
    /\ UNCHANGED <<session, chats, messages, screenshots, now>>
    /\ UNCHANGED <<seqVars, registryVars, eventVars>>

\* hset last_accessed, expire, and the return of the fields that were read
\* (a count that is not an int is returned as 0: nothing is raised)
GetSessionRefresh(p) ==
    /\ pc[p] = "gs_refresh"
    /\ RefreshSession
    /\ Return(p, call[p], "found", "none")
    /\ UNCHANGED <<chats, messages, screenshots, now>>
    /\ UNCHANGED <<seqVars, registryVars, eventVars>>

\* ---- delete_session ----
\* a Redis key of a chat hash or of a message hash
ChatKey(chat_id) == [kind |-> "chat", chat_id |-> chat_id, message_id |-> ""]
MessageKey(chat_id, message_id) ==
    [kind |-> "message", chat_id |-> chat_id, message_id |-> message_id]

\* keys("session:{token}:chat:*"): the glob also matches the message keys
\* session:{token}:chat:{id}:message:{mid}
KeysOfChatsGlob ==
    {ChatKey(c) : c \in {d \in ChatIds : chats[d] # None}}
    \cup UNION {{MessageKey(c, m) : m \in {n \in MessageIds : messages[c][n] # None}} :
                  c \in MessageChatIds}

\* the keys the pipeline deletes: every key that was listed
PipelineDeletes(keys) == keys

\* keys("session:{token}:chat:*"); the keys("...:chat:{id}:messages:*") awaited
\* for each listed key match no key the program writes (message keys are
\* named "message") and add nothing to the pipeline
DeleteSessionKeys(p) ==
    /\ pc[p] = "idle"
    /\ Goto(p, [NoCall EXCEPT !.op = "delete_session", !.via = "delete_session",
                              !.keys = KeysOfChatsGlob], "ds_execute")
    /\ UNCHANGED <<session, chats, messages, screenshots, now>>
    /\ UNCHANGED <<seqVars, registryVars, eventVars>>

\* pipe.execute(): delete the listed keys and the session key
DeleteSessionExecute(p) ==
    /\ pc[p] = "ds_execute"
    /\ LET deleted == PipelineDeletes(call[p].keys) IN
       /\ chats' = [c \in ChatIds |-> IF ChatKey(c) \in deleted THEN None ELSE chats[c]]
       /\ messages' = [c \in MessageChatIds |-> [m \in MessageIds |->
                          IF MessageKey(c, m) \in deleted THEN None ELSE messages[c][m]]]
    /\ session' = None
    /\ Return(p, call[p], "ok", "none")
    /\ UNCHANGED <<screenshots, now>>
    /\ UNCHANGED <<seqVars, registryVars, eventVars>>

\* ---- get_messages ----
\* keys("session:{token}:chat:{id}:message:*")
KeysOfMessagesNamedGlob(chat_id) == {}
KeysOfMessagesGlob(chat_id) ==
    IF chat_id \in MessageChatIds
    THEN {MessageKey(chat_id, m) : m \in {n \in MessageIds : messages[chat_id][n] # None}}
    ELSE {}

\* "messages.sort(key=lambda x: x['timestamp'], reverse=True)": the orders the
\* sort can leave a set of messages in (equal timestamps keep the order of the
\* reply to keys, which is any order)
NewestFirst(msgs) ==
    {s \in [1..Cardinality(msgs) -> msgs] :
        /\ \A i, j \in DOMAIN s : i # j => s[i] # s[j]
        /\ \A i, j \in DOMAIN s : i < j => s[i].timestamp >= s[j].timestamp}

\* "messages[offset:offset + limit]"
Slice(s, offset, limit) ==
    SubSeq(s, offset + 1, IF offset + limit < Len(s) THEN offset + limit ELSE Len(s))

\* the message get_messages returns for a stored hash: "message_data['metadata']
\* = json.loads(message_data['metadata']) if message_data['metadata'] else {}"
ListedMessage(message_data) ==
    [message_data EXCEPT !.metadata = LoadedMetadata(message_data.metadata)]

\* "messages[offset:offset + limit]" taken from the front
SliceIgnoringOffset(s, offset, limit) == Slice(s, 0, limit)

\* "return messages[offset:offset + limit]"
Window(s, offset, limit) == Slice(s, offset, limit)

\* get_messages: keys of the room's messages
GetMessages(p) ==
    /\ pc[p] = "idle"
    /\ \E chat_id \in MessageChatIds, limit \in Limits, offset \in Offsets :
         LET c == [NoCall EXCEPT !.op = "get_messages", !.via = "get_messages",
                                 !.chat_id = chat_id, !.limit = limit, !.offset = offset,
                                 !.keys = KeysOfMessagesGlob(chat_id)] IN
         IF c.keys = {}
         THEN ReturnValue(p, c, Window(<<>>, offset, limit))
         ELSE Goto(p, c, "gm_hgetall")
    /\ UNCHANGED <<session, chats, messages, screenshots, now>>
    /\ UNCHANGED <<seqVars, registryVars, eventVars>>

\* get_messages: hgetall of one listed key, "if message_data"; after the last
\* one the sort and the slice
GetMessagesHgetall(p) ==
    /\ pc[p] = "gm_hgetall"
    /\ \E k \in call[p].keys :
         LET message_data == messages[k.chat_id][k.message_id]
             c == [call[p] EXCEPT
                     !.keys = @ \ {k},
                     !.found = IF message_data = None THEN @
                               ELSE @ \cup {ListedMessage(message_data[1])}] IN
         IF c.keys # {}
         THEN Goto(p, c, "gm_hgetall")
         ELSE \E s \in NewestFirst(c.found) :
                 ReturnValue(p, c, Window(s, c.offset, c.limit))
    /\ UNCHANGED <<session, chats, messages, screenshots, now>>
    /\ UNCHANGED <<seqVars, registryVars, eventVars>>

\* ---- RedisChatService._objectid_to_uuid ----
\* uuid_to_objectid: the hex form of the first 12 of the 16 bytes of the MD5
\* digest of the uuid string. The 2^122 uuid4 strings go to 2^96 values, so the
\* function is not one-to-one: room ids 1 and 2 are two uuids whose digests
\* begin with the same 12 bytes, every later pair of ids likewise.
uuid_to_objectid(uuid_str) == (uuid_str + 1) \div 2

\* the object ids a caller sends: those of rooms, and 0, the id of no room of
\* the session
ObjectIds == {uuid_to_objectid(c) : c \in ChatIds} \cup {0}

\* the token of the session of the model, and the tokens of the other sessions
\* that Redis holds ("demo-session-{uuid4}": no ':' and no glob character)
SessionToken == "t1"
OtherTokens == {"t2"}

\* the room ids (uuid4) of the other sessions' rooms: the object id of room 0
\* is 0
OtherChatIds == {0}

\* the chat hash of a room of another session
OtherChat(chat_id) ==
    [id |-> chat_id, name |-> 1, created_at |-> 1, updated_at |-> 1,
     message_count |-> 0, latest_message_content |-> <<>>,
     latest_message_timestamp |-> None]

\* the chat hashes Redis holds under another session's token
StoredUnder(token) == IF token \in OtherTokens THEN {OtherChat(c) : c \in OtherChatIds} ELSE {}

\* "session:{token}:chat:{id}" and the pattern "session:{token}:chat:*", as
\* their parts between the colons
ChatKeyName(token, chat_id) == <<"session", token, "chat", chat_id>>
ChatsPattern(token) == <<"session", token, "chat", "*">>

\* KEYS: the parts before the closing '*' are literal and the '*' stands for
\* the rest of the key
GlobMatchesAnyToken(pattern, key) ==
    /\ Len(key) >= Len(pattern)
    /\ \A i \in 1..(Len(pattern) - 1) : i # 2 => pattern[i] = key[i]
GlobMatches(pattern, key) ==
    /\ Len(key) >= Len(pattern)
    /\ \A i \in 1..(Len(pattern) - 1) : pattern[i] = key[i]

\* a Redis key of a chat hash of another session
OtherChatKey(chat_id) == [kind |-> "other", chat_id |-> chat_id, message_id |-> ""]

\* keys("session:{token}:chat:*"): the keys of other sessions that it lists
KeysOfOtherSessionsGlob(token) ==
    UNION {{OtherChatKey(ch.id) :
              ch \in {d \in StoredUnder(t) :
                         GlobMatches(ChatsPattern(token), ChatKeyName(t, d.id))}} :
           t \in OtherTokens}

\* "chats.sort(key=lambda x: x.get('created_at', ''), reverse=True)": the orders
\* the sort can leave the rooms in (equal instants keep the order of the reply
\* to keys, which is any order)
NewestChatsFirst(found) ==
    {s \in [1..Cardinality(found) -> found] :
        /\ \A i, j \in DOMAIN s : i # j => s[i] # s[j]
        /\ \A i, j \in DOMAIN s : i < j => s[i].created_at >= s[j].created_at}

\* "for chat in chats: if str(uuid_to_objectid(chat['id'])) == object_id"
Matches(sorted, object_id) ==
    {i \in DOMAIN sorted : uuid_to_objectid(sorted[i].id) = object_id}

FirstOf(indices) == CHOOSE i \in indices : \A j \in indices : i <= j

\* the REST endpoints that begin with the lookup, and the handler of a
\* WebSocket message; "objectid_to_uuid" is the lookup taken by itself
RestCallers ==
    {"get_chat_details", "update_chat", "get_chat_events", "get_chat_screenshots",
     "delete_chat"}
LookupCallers == {"objectid_to_uuid", "process_message"} \cup RestCallers

\* what the caller makes of the ValueError of the lookup: the endpoints have
\* "except ValueError: raise HTTPException(status_code=404, detail='Chat not
\* found')"; _process_message has no clause for it before "except Exception",
\* which sends "An internal error occurred processing your message."
OnValueError(via) ==
    IF via \in RestCallers THEN "chat_not_found"
    ELSE IF via = "process_message" THEN "internal_error"
    ELSE "not_found"

\* the sort of get_chats and the scan of _objectid_to_uuid: the first match is
\* returned, "raise ValueError(... not found for session)" without one, which
\* ends the caller with its answer to the client
ObjectIdScan(p, c) ==
    \E sorted \in NewestChatsFirst(c.chats) :
        LET hits == Matches(sorted, c.object_id) IN
        IF hits = {}
        THEN Return(p, c, OnValueError(c.via), "none")
        ELSE ReturnValue(p, c, sorted[FirstOf(hits)].id)

\* get_chats: keys("session:{token}:chat:*")
ObjectIdToUuid(p) ==
    /\ pc[p] = "idle"
    /\ \E object_id \in ObjectIds, via \in LookupCallers :
         LET c == [NoCall EXCEPT !.op = "objectid_to_uuid", !.via = via,
                                 !.object_id = object_id,
                                 !.keys = KeysOfChatsGlob
                                            \cup KeysOfOtherSessionsGlob(SessionToken),
                                 !.todo = KeysOfChatsGlob
                                            \cup KeysOfOtherSessionsGlob(SessionToken)] IN
         IF c.todo = {}
         THEN ObjectIdScan(p, c)
         ELSE Goto(p, c, "otu_hgetall")
    /\ UNCHANGED <<session, chats, messages, screenshots, now>>
    /\ UNCHANGED <<seqVars, registryVars, eventVars>>

\* get_chats: hgetall of the next key (no key ends with ":messages", so every
\* listed key is read); "if chat_data and 'created_at' in chat_data" keeps it
ObjectIdToUuidHgetall(p) ==
    /\ pc[p] = "otu_hgetall"
    /\ \E k \in call[p].todo :
         LET chat_data == IF k.kind = "chat" THEN chats[k.chat_id]
                          ELSE IF k.kind = "other" THEN Some(OtherChat(k.chat_id))
                          ELSE messages[k.chat_id][k.message_id]
             kept == IF chat_data # None /\ "created_at" \in DOMAIN chat_data[1]
                     THEN {chat_data[1]} ELSE {}
             c == [call[p] EXCEPT !.todo = @ \ {k}, !.chats = @ \cup kept] IN
         IF c.todo = {}
         THEN ObjectIdScan(p, c)
         ELSE Goto(p, c, "otu_hgetall")
    /\ UNCHANGED <<session, chats, messages, screenshots, now>>
    /\ UNCHANGED <<seqVars, registryVars, eventVars>>

\* ---- RedisChatService.delete_chat ----
ScreenshotKey(screenshot_id) ==
    [kind |-> "screenshot", chat_id |-> 0, message_id |-> screenshot_id]

\* get_chat_by_id: hgetall of the chat, "Chat not found" (404) when it is empty
DeleteChat(p) ==
    /\ pc[p] = "idle"
    /\ \E chat_id \in ChatIds :
         LET c == [NoCall EXCEPT !.op = "delete_chat", !.via = "delete_chat",
                                 !.chat_id = chat_id] IN
         IF chats[chat_id] = None
         THEN Return(p, c, "chat_not_found", "none")
         ELSE Goto(p, c, "dc_keys")
    /\ UNCHANGED <<session, chats, messages, screenshots, now>>
    /\ UNCHANGED <<seqVars, registryVars, eventVars>>

\* where delete_chat goes on once get_messages has returned msgs
DeleteChatLoop(p, c, msgs) ==
    IF msgs = <<>>
    THEN Goto(p, [c EXCEPT !.msgs = msgs], "dc_execute")
    ELSE Goto(p, [c EXCEPT !.msgs = msgs,
                           !.pipe = @ \cup {MessageKey(c.chat_id, Head(msgs).id)}],
              "dc_shot_keys")

\* get_messages: keys of the room's messages
DeleteChatKeys(p) ==
    /\ pc[p] = "dc_keys"
    /\ LET c == [call[p] EXCEPT !.keys = KeysOfMessagesGlob(call[p].chat_id)] IN
       IF c.keys = {}
       THEN DeleteChatLoop(p, c, <<>>)
       ELSE Goto(p, c, "dc_read")
    /\ UNCHANGED <<session, chats, messages, screenshots, now>>
    /\ UNCHANGED <<seqVars, registryVars, eventVars>>

\* get_messages: hgetall of one listed key, "if message_data"; after the last
\* one the sort and the slice
DeleteChatRead(p) ==
    /\ pc[p] = "dc_read"
    /\ \E k \in call[p].keys :
         LET message_data == messages[k.chat_id][k.message_id]
             c == [call[p] EXCEPT
                     !.keys = @ \ {k},
                     !.shots = IF message_data = None THEN @
                               ELSE @ \cup {[id |-> message_data[1].id,
                                             timestamp |-> message_data[1].timestamp]}] IN
         IF c.keys # {}
         THEN Goto(p, c, "dc_read")
         ELSE \E s \in NewestFirst(c.shots) :
                 DeleteChatLoop(p, [c EXCEPT !.shots = {}],
                                Slice(s, 0, DeleteChatMessageLimit))
    /\ UNCHANGED <<session, chats, messages, screenshots, now>>
    /\ UNCHANGED <<seqVars, registryVars, eventVars>>

\* the message loop moves to its next message, or to the end of the loop
DeleteChatNextMessage(p, c) == DeleteChatLoop(p, [c EXCEPT !.shots = {}], Tail(c.msgs))

\* keys("session:{token}:screenshot:*") for the message at hand
DeleteChatScreenshotKeys(p) ==
    /\ pc[p] = "dc_shot_keys"
    /\ LET c == [call[p] EXCEPT
                    !.shots = {i \in ScreenshotIds : screenshots[i] # None}] IN
       IF c.shots = {}
       THEN DeleteChatNextMessage(p, c)
       ELSE Goto(p, c, "dc_shot_hget")
    /\ UNCHANGED <<session, chats, messages, screenshots, now>>
    /\ UNCHANGED <<seqVars, registryVars, eventVars>>

\* hget of one screenshot's metadata; the key joins the pipeline when its
\* chat_id and message_id are those of the message at hand
DeleteChatScreenshotHget(p) ==
    /\ pc[p] = "dc_shot_hget"
    /\ \E i \in call[p].shots :
         LET screenshot_metadata ==
                 IF screenshots[i] = None THEN None ELSE screenshots[i][1].metadata
             matches ==
                 /\ screenshot_metadata # None
                 /\ screenshot_metadata[1].chat_id = call[p].chat_id
                 /\ screenshot_metadata[1].message_id = Head(call[p].msgs).id
             c == [call[p] EXCEPT
                     !.shots = @ \ {i},
                     !.pipe = IF matches THEN @ \cup {ScreenshotKey(i)} ELSE @] IN
         IF c.shots # {}
         THEN Goto(p, c, "dc_shot_hget")
         ELSE DeleteChatNextMessage(p, c)
    /\ UNCHANGED <<session, chats, messages, screenshots, now>>
    /\ UNCHANGED <<seqVars, registryVars, eventVars>>

\* pipe.execute(): delete the queued message and screenshot keys and the chat
\* key, hincrby chat_count -1 (hincrby on a key that is gone makes a hash of
\* that one field)
DeleteChatExecute(p) ==
    /\ pc[p] = "dc_execute"
    /\ LET c == call[p] IN
       /\ chats' = [chats EXCEPT ![c.chat_id] = None]
       /\ messages' = [d \in MessageChatIds |-> [m \in MessageIds |->
                          IF MessageKey(d, m) \in c.pipe THEN None ELSE messages[d][m]]]
       /\ screenshots' = [i \in ScreenshotIds |->
                          IF ScreenshotKey(i) \in c.pipe THEN None ELSE screenshots[i]]
       /\ session' = IF session = None
                     THEN Some([chat_count |-> -1, expires_at |-> 0])
                     ELSE Some([session[1] EXCEPT !.chat_count = @ - 1])
       /\ Return(p, c, "ok", "none")
    /\ UNCHANGED now
    /\ UNCHANGED <<seqVars, registryVars, eventVars>>

\* ---- RedisChatService.update_chat_name ----
\* get_chat_by_id: hgetall of the chat, "Chat not found" (404) when it is empty
UpdateChatName(p) ==
    /\ pc[p] = "idle"
    /\ \E chat_id \in ChatIds, new_name \in NewNames :
         LET c == [NoCall EXCEPT !.op = "update_chat_name", !.via = "update_chat_name",
                                 !.chat_id = chat_id, !.name = new_name] IN
         IF chats[chat_id] = None
         THEN Return(p, c, "chat_not_found", "none")
         ELSE Goto(p, c, "ucn_hset")
    /\ UNCHANGED <<session, chats, messages, screenshots, now>>
    /\ UNCHANGED <<seqVars, registryVars, eventVars>>

\* hset of name and updated_at (on a key that is gone: a hash of these two)
UpdateChatNameHset(p) ==
    /\ pc[p] = "ucn_hset"
    /\ LET c == call[p] IN
       chats' = [chats EXCEPT ![c.chat_id] =
                    IF @ = None
                    THEN Some([name |-> c.name, updated_at |-> now])
                    ELSE Some([@[1] EXCEPT !.name = c.name, !.updated_at = now])]
    /\ Goto(p, call[p], "ucn_reread")
    /\ UNCHANGED <<session, messages, screenshots, now>>
    /\ UNCHANGED <<seqVars, registryVars, eventVars>>

\* the closing get_chat, and the return of what it read
UpdateChatNameReread(p) ==
    /\ pc[p] = "ucn_reread"
    /\ Return(p, call[p], "ok", "none")
    /\ UNCHANGED <<session, chats, messages, screenshots, now>>
    /\ UNCHANGED <<seqVars, registryVars, eventVars>>

\* one step of coroutine p in delete_chat
DeleteChatStep(p) ==
    \/ DeleteChat(p) \/ DeleteChatKeys(p) \/ DeleteChatRead(p)
    \/ DeleteChatScreenshotKeys(p) \/ DeleteChatScreenshotHget(p) \/ DeleteChatExecute(p)

\* one step of coroutine p in update_chat_name
UpdateChatNameStep(p) ==
    UpdateChatName(p) \/ UpdateChatNameHset(p) \/ UpdateChatNameReread(p)

\* one step of coroutine p in get_session
SessionStep(p) == GetSession(p) \/ GetSessionRefresh(p)

\* one step of coroutine p in delete_session
DeleteSessionStep(p) == DeleteSessionKeys(p) \/ DeleteSessionExecute(p)

\* one step of coroutine p in get_messages
GetMessagesStep(p) == GetMessages(p) \/ GetMessagesHgetall(p)

\* one step of coroutine p in _objectid_to_uuid
ObjectIdStep(p) == ObjectIdToUuid(p) \/ ObjectIdToUuidHgetall(p)

\* one step of coroutine p in create_chat
ChatStep(p) ==
    \/ CreateChatGet(p) \/ CreateChatRefresh(p) \/ CreateChatHset(p) \/ CreateChatIncr(p)

\* one step of coroutine p inside add_message
AddRun(p) ==
    \/ AddRefresh(p) \/ AddChat(p) \/ AddHsetMessage(p)
    \/ AddHsetChat(p) \/ AddIncrCount(p) \/ AddIncrMemory(p)

\* one step of coroutine p in add_message
AddStep(p) == AddMessage(p) \/ AddRun(p)

\* one step of coroutine p in update_message or upsert_message
UpdateStep(p) ==
    \/ UpdateMessage(p) \/ UpdateGet(p) \/ UpdateHsetMessage(p) \/ UpdateHsetChat(p)
    \/ UpdateReread(p) \/ UpsertMessage(p) \/ AddGet(p)

\* one step of coroutine p in store_screenshot
ScreenshotStep(p) ==
    \/ StoreScreenshot(p) \/ ScreenshotRefresh(p) \/ ScreenshotHsetData(p)
    \/ ScreenshotHsetMetadata(p) \/ ScreenshotIncrMemory(p)

\* the awaits of add_message and update_message that come after the method's
\* first write: hset of the chat, hincrby message_count, update_memory_usage;
\* hset of the chat in update_message
AwaitsAfterFirstWrite == {"am_hset_chat", "am_incr_count", "am_incr_mem", "um_hset_chat"}

\* the awaited Redis command raises (a connection error or a timeout of
\* redis.asyncio, or the cancellation of the task at the await): neither method
\* has a try, a pipeline or a transaction, so the exception leaves the method
\* with the writes made so far in place
RedisRaises(p) ==
    /\ pc[p] \in AwaitsAfterFirstWrite
    /\ Return(p, call[p], "storage_error", "none")
    /\ UNCHANGED <<session, chats, messages, screenshots, now>>
    /\ UNCHANGED <<seqVars, registryVars, eventVars>>

\* ---- RedisChatService.add_message ----
\* a caller calls the service's add_message(chat_id, user_id, content, role,
\* metadata): RedisStorage.add_message will draw the id and the timestamp
ServiceAddMessage(p) ==
    /\ pc[p] = "idle"
    /\ \E chat_id \in MessageChatIds, content \in Contents, role \in AddRoles,
          metadata \in Metadatas :
       \E id \in FreshMessageIds(chat_id) :
         Goto(p, [NoCall EXCEPT !.op = "service_add_message", !.via = "add_message",
                     !.chat_id = chat_id, !.content = content, !.role = role,
                     !.metadata = metadata, !.fresh = id], "sam_chat")
    /\ UNCHANGED <<session, chats, messages, screenshots, now>>
    /\ UNCHANGED <<seqVars, registryVars, eventVars>>

\* get_chat_by_id: get_chat's hgetall, "if not chat: raise AppException(404,
\* 'CHAT_NOT_FOUND')"; then RedisStorage.add_message
ServiceGetChat(p) ==
    /\ pc[p] = "sam_chat"
    /\ IF chats[call[p].chat_id] = None
       THEN Return(p, call[p], "chat_not_found", "none")
       ELSE Goto(p, call[p], "am_get")
    /\ UNCHANGED <<session, chats, messages, screenshots, now>>
    /\ UNCHANGED <<seqVars, registryVars, eventVars>>

\* the error_code of the AppException the service raises for the ValueError of
\* RedisStorage.add_message ("Session memory limit exceeded", "Maximum messages
\* per chat exceeded", "Chat not found"), matched on the lowered message
AppErrorCode(status) ==
    CASE status = "ok"             -> "none"
      [] status = "memory_limit"   -> "MEMORY_LIMIT_EXCEEDED"
      [] status = "max_messages"   -> "MESSAGE_LIMIT_EXCEEDED"
      [] status = "chat_not_found" -> "CHAT_NOT_FOUND"
      [] OTHER                     -> "MESSAGE_CREATION_FAILED"

\* one step of coroutine p in the service's add_message
ServiceAddStep(p) == ServiceAddMessage(p) \/ ServiceGetChat(p) \/ AddGet(p) \/ AddRun(p)

\* the session key expires while no call is running
LifeTickBetweenCalls ==
    /\ \A p \in Procs : pc[p] = "idle"
    /\ LifeTick

\* appends through the service and through the storage, one at a time, in a
\* session that may expire or be deleted between them
ErrorNext ==
    \/ LifeTickBetweenCalls
    \/ ServiceAddStep("p1")
    \/ AddMessage("p1")
    \/ DeleteSessionStep("p1")

\* message calls of one coroutine, any of whose later Redis commands may raise
FailureNext == Tick \/ AddStep("p1") \/ UpdateStep("p1") \/ RedisRaises("p1")

\* message calls on a room that never overlap: one coroutine
MessageNext == Tick \/ AddStep("p1") \/ UpdateStep("p1")

\* add_message and store_screenshot calls from coroutines that the event loop
\* interleaves at their awaits (within one reading of the clock: no quota
\* decision reads it)
MemoryNext ==
    \E p \in Procs : AddMessageNow(p) \/ AddRun(p) \/ ScreenshotStep(p)

\* create_chat calls from coroutines that the event loop interleaves
ChatNext == CreateSession \/ Tick \/ \E p \in Procs : ChatStep(p)

\* the rooms, messages and screenshots of a session and their deletion, by
\* calls that never overlap: one coroutine
TeardownNext ==
    \/ CreateSession
    \/ ChatStep("p1") \/ UpdateChatNameStep("p1") \/ DeleteChatStep("p1")
    \/ AddMessageNow("p1") \/ AddRun("p1") \/ ScreenshotStep("p1")
    \/ DeleteSessionStep("p1")

\* delete_chat is called while chat_count is within the explored range
DeleteChatCounted(p) ==
    /\ session # None
    /\ session[1].chat_count + MaxChatsPerSession > 0
    /\ DeleteChat(p)

\* create_chat and delete_chat calls on rooms without messages, from
\* coroutines that the event loop interleaves
CountNext ==
    \/ CreateSession
    \/ \E p \in Procs :
          ChatStep(p) \/ DeleteChatCounted(p) \/ DeleteChatKeys(p) \/ DeleteChatExecute(p)

\* upsert_message calls on one room from coroutines that the event loop
\* interleaves (within one reading of the clock)
UpsertNext ==
    \E p \in Procs :
       \/ UpsertMessageNow(p) \/ AddGet(p) \/ AddRun(p)
       \/ UpdateGet(p) \/ UpdateHsetMessage(p) \/ UpdateHsetChat(p) \/ UpdateReread(p)

\* the life of a session key: creation, lookups and deletion from coroutines
\* that the event loop interleaves, while the clock runs past expiries
SessionNext ==
    CreateSession \/ LifeTick \/ \E p \in Procs : SessionStep(p) \/ DeleteSessionStep(p)

\* add_message and get_messages calls on a room that never overlap: one
\* coroutine
ListNext == Tick \/ AddStep("p1") \/ GetMessagesStep("p1")

\* the rooms of a session and the reverse lookups of their object ids: a
\* coroutine that makes lookups and rooms, interleaved with one that makes rooms
IdentityNext ==
    CreateSession \/ Tick \/ ObjectIdStep("p1") \/ \E p \in Procs : ChatStep(p)

\* the same within one reading of the clock
SeparationNext ==
    CreateSession \/ ObjectIdStep("p1") \/ \E p \in Procs : ChatStep(p)

(***************************************************************************)
(* ReActCallback: the operation sequencer                                  *)
(***************************************************************************)

\* the tool invocations of a turn, by dspy's call_id
CallIds == {"c1", "c2"}
\* the tools of the agent that on_tool_start reports ("finish" is skipped)
TurnTools == {"query_sql_db", "scrape_website"}
\* the message ids uuid4 gives create_tool_message
ToolMessageIds == 1..MaxOps

\* an operation_func and the variables of the hook it closes over
Closure(type, call_id, tool_name) ==
    [type |-> type, call_id |-> call_id, tool_name |-> tool_name]
PlainClosure == Closure("operation", "", "")

\* a call binds its keyword arguments only to parameters of the method; any
\* other keyword raises TypeError at the call
Binds(params, keywords) == keywords \subseteq params

\* ChatService.send_tool_message(self, chat, tool_name, input_payload) and the
\* keywords create_tool_message calls it with
SendToolMessageParams == {"chat", "tool_name", "input_payload"}
CreateToolMessageKeywords == {"chat", "tool_name", "input_payload", "message_id"}

\* ReActCallback.__init__
SeqInit ==
    /\ op_closure = [k \in Ops |-> PlainClosure]
    /\ call_id_to_tool = [c \in CallIds |-> ""]
    /\ tool_message_ids = [n \in TurnTools |-> 0]
    /\ tool_made = [c \in CallIds |-> 0]
    /\ turn = "running"
    /\ operation_queue = <<>>
    /\ processing_queue = FALSE
    /\ enqueued = 0
    /\ drain_task = [k \in Ops |-> "none"]
    /\ current_op = [k \in Ops |-> 0]
    /\ op_io = [k \in Ops |-> 0]
    /\ executed = <<>>
    /\ failed = {}

\* operation = self.operation_queue.pop(0): <<popped operation, rest of the queue>>
PopLast(q) == <<q[Len(q)], SubSeq(q, 1, Len(q) - 1)>>
PopFirst(q) == <<Head(q), Tail(q)>>

\* "if self.processing_queue or not self.operation_queue: return"
ReturnsOnlyWhenEmpty(pq, q) == q = <<>>
ReturnsEarly(pq, q) == pq \/ q = <<>>

\* "while self.operation_queue:"
LoopRunsOnce(q) == FALSE
LoopContinues(q) == q # <<>>

\* "except Exception as e: pass": is an exception raised by operation_func caught
CatchesNothing(raised) == FALSE
Catches(raised) == raised

\* "if not self.processing_queue: asyncio.create_task(...)"
SpawnsTask(pq) == ~pq

\* create_tool_message: "tool_message_id = str(uuid.uuid4())" (an id no
\* earlier call drew: the least one, ids are only compared for equality),
\* "self.tool_message_ids[tool_name] = tool_message_id", then the call of
\* send_tool_message; its TypeError is caught and "self.tool_message_ids.pop(
\* tool_name, None)" removes the entry. A call that binds goes on into
\* send_tool_message with the entry in place.
CreateToolMessage(closure) ==
    LET unused == ToolMessageIds \ {tool_made[c] : c \in CallIds}
        tool_message_id == CHOOSE i \in unused : \A j \in unused : i <= j IN
       /\ tool_made' = [tool_made EXCEPT ![closure.call_id] = tool_message_id]
       /\ tool_message_ids' =
            [tool_message_ids EXCEPT ![closure.tool_name] =
                IF Binds(SendToolMessageParams, CreateToolMessageKeywords)
                THEN tool_message_id ELSE 0]

\* what calling operation_func does to the callback's maps up to its first
\* suspension point: update_tool_message and the other closures only read them
RunsClosure(closure) ==
    IF closure.type = "create_tool_message"
    THEN CreateToolMessage(closure)
    ELSE UNCHANGED <<tool_message_ids, tool_made>>

\* One iteration of the while loop up to the await: pop the head and call its
\* operation_func, which runs until its first suspension point.
StartNext(t) ==
    LET p == PopFirst(operation_queue) IN
    /\ operation_queue' = p[2]
    /\ current_op' = [current_op EXCEPT ![t] = p[1]]
    /\ op_io' = [op_io EXCEPT ![t] = 0]
    /\ executed' = Append(executed, p[1])
    /\ RunsClosure(op_closure[p[1]])

\* _queue_operation(operation_type, operation_func, description):
\* synchronous, called by the dspy callback hooks while the agent runs
QueueClosure(closure) ==
    /\ enqueued < MaxOps
    /\ turn = "running"
    /\ LET op == enqueued + 1 IN
        /\ enqueued' = op
        /\ operation_queue' = Append(operation_queue, op)
        /\ op_closure' = [op_closure EXCEPT ![op] = closure]
        /\ drain_task' = [drain_task EXCEPT ![op] =
                            IF SpawnsTask(processing_queue) THEN "created" ELSE "none"]
    /\ UNCHANGED <<processing_queue, current_op, op_io, executed, failed, tool_made, turn>>
    /\ UNCHANGED <<storeVars, registryVars, eventVars>>

\* a hook that queues an operation and leaves the tool maps alone
\* (on_module_start, on_module_end, the thought and reasoning updates)
QueueOperation ==
    /\ QueueClosure(PlainClosure)
    /\ UNCHANGED <<call_id_to_tool, tool_message_ids>>

\* _process_operation_queue, from the task's first run to its first suspension
DrainStart(t) ==
    /\ drain_task[t] = "created"
    /\ IF ReturnsEarly(processing_queue, operation_queue)
       THEN /\ drain_task' = [drain_task EXCEPT ![t] = "done"]
            /\ UNCHANGED <<operation_queue, processing_queue, current_op, op_io, executed>>
            /\ UNCHANGED <<tool_message_ids, tool_made>>
       ELSE /\ processing_queue' = TRUE
            /\ drain_task' = [drain_task EXCEPT ![t] = "awaiting"]
            /\ StartNext(t)
    /\ UNCHANGED <<enqueued, failed, op_closure, call_id_to_tool, turn>>
    /\ UNCHANGED <<storeVars, registryVars, eventVars>>

\* the awaited operation_func resumes and suspends again on its own I/O
OperationIO(t) ==
    /\ drain_task[t] = "awaiting"
    /\ op_io[t] < MaxIO
    /\ op_io' = [op_io EXCEPT ![t] = @ + 1]
    /\ UNCHANGED <<operation_queue, processing_queue, enqueued, drain_task,
                   current_op, executed, failed>>
    /\ UNCHANGED <<op_closure, call_id_to_tool, tool_message_ids, tool_made, turn>>
    /\ UNCHANGED <<storeVars, registryVars, eventVars>>

\* the awaited operation_func returns or raises; the loop goes on to the next
\* operation or leaves
OperationEnd(t, raised) ==
    /\ drain_task[t] = "awaiting"
    /\ failed' = IF raised THEN failed \cup {current_op[t]} ELSE failed
    /\ IF raised /\ ~Catches(raised)
       THEN \* the exception leaves the coroutine: the task ends where it is
            /\ drain_task' = [drain_task EXCEPT ![t] = "crashed"]
            /\ current_op' = [current_op EXCEPT ![t] = 0]
            /\ UNCHANGED <<operation_queue, processing_queue, op_io, executed>>
            /\ UNCHANGED <<tool_message_ids, tool_made>>
       ELSE IF LoopContinues(operation_queue)
            THEN /\ StartNext(t)
                 /\ UNCHANGED <<processing_queue, drain_task>>
            ELSE /\ processing_queue' = FALSE
                 /\ drain_task' = [drain_task EXCEPT ![t] = "done"]
                 /\ current_op' = [current_op EXCEPT ![t] = 0]
                 /\ UNCHANGED <<operation_queue, op_io, executed>>
                 /\ UNCHANGED <<tool_message_ids, tool_made>>
    /\ UNCHANGED <<enqueued, op_closure, call_id_to_tool, turn>>
    /\ UNCHANGED <<storeVars, registryVars, eventVars>>

OperationReturns(t) == OperationEnd(t, FALSE)

\* the closures queued so far for a tool invocation
ClosuresOf(call_id) ==
    {op_closure[k].type : k \in {j \in 1..enqueued : op_closure[j].call_id = call_id}}

\* on_tool_start(call_id, instance, inputs) of a tool other than "finish":
\* queues create_tool_message and stores the call_id's tool name
OnToolStart(call_id) ==
    /\ ClosuresOf(call_id) = {}
    /\ \E tool_name \in TurnTools :
         /\ QueueClosure(Closure("create_tool_message", call_id, tool_name))
         /\ call_id_to_tool' = [call_id_to_tool EXCEPT ![call_id] = tool_name]
    /\ UNCHANGED tool_message_ids

\* on_tool_end(call_id, outputs, exception): with a tool name for the call_id
\* it queues update_tool_message and pops the call_id; without one it does
\* nothing
OnToolEnd(call_id) ==
    /\ ClosuresOf(call_id) = {"create_tool_message"}
    /\ LET tool_name == call_id_to_tool[call_id] IN
       IF tool_name # ""
       THEN /\ QueueClosure(Closure("update_tool_message", call_id, tool_name))
            /\ call_id_to_tool' = [call_id_to_tool EXCEPT ![call_id] = ""]
            /\ UNCHANGED tool_message_ids
       ELSE UNCHANGED vars

\* on_adapter_parse_end with an assistant_response, once in a turn: queues
\* send_response and
\* clears tool_message_ids and _call_id_to_tool (and tool_input_payloads)
OnFinalResponse ==
    /\ \A k \in 1..enqueued : op_closure[k].type # "send_response"
    /\ QueueClosure(Closure("send_response", "", ""))
    /\ call_id_to_tool' = [c \in CallIds |-> ""]
    /\ tool_message_ids' = [n \in TurnTools |-> 0]

\* process_user_message: "await prompt(...)" returns ("returned") or raises and
\* the except branch goes on to send_error_message ("error"); neither prompt
\* nor process_user_message awaits the callback's queue or its drain tasks
TurnEnds(outcome) ==
    /\ turn = "running"
    /\ turn' = outcome
    /\ UNCHANGED <<operation_queue, processing_queue, enqueued, drain_task, current_op,
                   op_io, executed, failed, op_closure, call_id_to_tool,
                   tool_message_ids, tool_made>>
    /\ UNCHANGED <<storeVars, registryVars, eventVars>>

TurnReturns == TurnEnds("returned")
TurnFails == TurnEnds("error")

\* the tool invocations of a turn: the hooks dspy calls and the drain tasks
\* the event loop runs between them; every closure catches its own exceptions
ToolTurnNext ==
    \/ \E c \in CallIds : OnToolStart(c)
    \/ \E c \in CallIds : OnToolEnd(c)
    \/ OnFinalResponse
    \/ \E t \in Ops : DrainStart(t)
    \/ \E t \in Ops : OperationReturns(t)
OperationRaises(t) == OperationEnd(t, TRUE)

SeqNext ==
    \/ QueueOperation
    \/ \E t \in Ops : DrainStart(t)
    \/ \E t \in Ops : OperationIO(t)
    \/ \E t \in Ops : OperationReturns(t)
    \/ \E t \in Ops : OperationRaises(t)

\* a turn: the hooks of the agent run, the drain tasks, and the end of the run
TurnNext == SeqNext \/ TurnReturns \/ TurnFails

(***************************************************************************)
(* WebSocketRepository: the connection registry                            *)
(* connect and disconnect have no await inside: each is one step. A        *)
(* broadcast_to_chat is suspended at each send_text; the loop that         *)
(* disconnects the failed sockets runs with the end of the last send.      *)
(***************************************************************************)
Sockets == 1..MaxSockets
\* connection_id: the room id a WebSocket endpoint is opened on
RegistryRooms == {"r1", "r2"}
\* tasks that call broadcast_to_chat
Broadcasters == {"b1", "b2"}

NoBroadcast ==
    [pc |-> "idle", chat_id |-> "", connections |-> <<>>, i |-> 0, connection |-> 0,
     disconnected_sockets |-> <<>>, start |-> <<>>, sent |-> <<>>, raised |-> {}]

NoRegistryResult == [op |-> "none", status |-> "none", failed |-> {}]

\* WebSocketRepository.__init__
RegistryInit ==
    /\ active_connections = [r \in RegistryRooms |-> None]
    /\ ws_state = [w \in Sockets |-> [state |-> "new", chat_id |-> ""]]
    /\ broadcast = [b \in Broadcasters |-> NoBroadcast]
    /\ registry_result = NoRegistryResult

\* the list stored for a room ([] when the room has no entry)
Members(conns, chat_id) == IF conns[chat_id] = None THEN <<>> ELSE conns[chat_id][1]

\* "websocket in self.active_connections[chat_id]"
IsMemberAlways(websocket, list) == TRUE
IsMember(websocket, list) == websocket \in Range(list)

\* (a remove that leaves the list as it was)
RemoveNothing(list, websocket) == list

\* list.remove(websocket): without the first occurrence
RemoveFirst(list, websocket) ==
    LET k == CHOOSE i \in 1..Len(list) :
                 list[i] = websocket /\ \A j \in 1..(i - 1) : list[j] # websocket IN
    SubSeq(list, 1, k - 1) \o SubSeq(list, k + 1, Len(list))

\* "if not self.active_connections[chat_id]: del self.active_connections[chat_id]"
PrunesNever(list) == FALSE
PrunesEmpty(list) == list = <<>>

\* disconnect(websocket, chat_id): the directory it leaves and the branch it takes
\* (list.remove of a value that is not in the list raises ValueError)
DisconnectOne(conns, websocket, chat_id) ==
    IF conns[chat_id] # None
    THEN IF IsMember(websocket, conns[chat_id][1])
         THEN IF websocket \in Range(conns[chat_id][1])
              THEN LET rest == RemoveFirst(conns[chat_id][1], websocket) IN
                   [conns |-> [conns EXCEPT ![chat_id] =
                                  IF PrunesEmpty(rest) THEN None ELSE Some(rest)],
                    branch |-> "removed"]
              ELSE [conns |-> conns, branch |-> "raised"]
         ELSE [conns |-> conns, branch |-> "already_removed"]
    ELSE [conns |-> conns, branch |-> "room_not_found"]

\* "for sock in disconnected_sockets: self.disconnect(sock, chat_id)"
RECURSIVE DisconnectAll(_, _, _)
DisconnectAll(conns, socks, chat_id) ==
    IF socks = <<>>
    THEN [conns |-> conns, branch |-> "done"]
    ELSE LET d == DisconnectOne(conns, Head(socks), chat_id) IN
         IF d.branch = "raised" THEN d ELSE DisconnectAll(d.conns, Tail(socks), chat_id)

\* the sockets the closing loop of broadcast_to_chat disconnects
SocketsToDisconnectNone(disconnected_sockets) == <<>>
SocketsToDisconnect(disconnected_sockets) == disconnected_sockets

\* the list the send loop walks: the copy made before the first send
\* ("connections = self.active_connections[chat_id][:]"), not the stored list
LiveConnections(connections, live) == live
Snapshot(connections, live) == connections

\* handle_connect -> connect(websocket, chat_id), once for each WebSocket
Connect(w) ==
    /\ ws_state[w].state = "new"
    /\ \E chat_id \in RegistryRooms :
         /\ active_connections' = [active_connections EXCEPT ![chat_id] =
                                      Some(Append(Members(active_connections, chat_id), w))]
         /\ ws_state' = [ws_state EXCEPT ![w] = [state |-> "open", chat_id |-> chat_id]]
    /\ registry_result' = [op |-> "connect", status |-> "ok", failed |-> {}]
    /\ UNCHANGED broadcast
    /\ UNCHANGED <<seqVars, storeVars, eventVars>>

\* "finally: controller.handle_disconnect()" -> disconnect(websocket, chat_id),
\* for an endpoint in one of the given states
HandleDisconnectIn(w, states, closed) ==
    /\ ws_state[w].state \in states
    /\ LET d == DisconnectOne(active_connections, w, ws_state[w].chat_id) IN
       /\ active_connections' = d.conns
       /\ registry_result' = [op |-> "disconnect", status |-> d.branch, failed |-> {}]
    /\ ws_state' = [ws_state EXCEPT ![w].state = closed]
    /\ UNCHANGED broadcast
    /\ UNCHANGED <<seqVars, storeVars, eventVars>>

\* the message loop ends without an await before the finally (receive_text
\* raises WebSocketDisconnect, or another exception with the client already
\* disconnected), and handle_disconnect runs
HandleDisconnect(w) == HandleDisconnectIn(w, {"open"}, "closed")

\* run_message_loop's "except Exception": the loop has ended with an
\* unhandled error and "await self.websocket.close(code=...)" is under way
LoopFails(w) ==
    /\ ws_state[w].state = "open"
    /\ ws_state' = [ws_state EXCEPT ![w].state = "closing"]
    /\ UNCHANGED <<active_connections, broadcast, registry_result>>
    /\ UNCHANGED <<seqVars, storeVars, eventVars>>

\* that close raises something other than RuntimeError: it leaves
\* run_message_loop, and the endpoint's "except Exception" awaits
\* websocket.close again
CloseRaises(w) ==
    /\ ws_state[w].state = "closing"
    /\ ws_state' = [ws_state EXCEPT ![w].state = "endpoint_closing"]
    /\ UNCHANGED <<active_connections, broadcast, registry_result>>
    /\ UNCHANGED <<seqVars, storeVars, eventVars>>

\* an awaited close returns or raises RuntimeError (or, in the endpoint,
\* anything else): the endpoint's finally runs handle_disconnect
CloseReturns(w) ==
    HandleDisconnectIn(w, {"closing", "endpoint_closing"}, "closed_after_error")

\* broadcast_to_chat up to its first send_text, or its return when the room
\* has no entry or an empty list
BroadcastToChat(b) ==
    /\ broadcast[b].pc = "idle"
    /\ \E chat_id \in RegistryRooms :
         LET live == Members(active_connections, chat_id) IN
         IF active_connections[chat_id] # None /\ live # <<>>
         THEN LET walked == Snapshot(live, live) IN
              /\ broadcast' = [broadcast EXCEPT ![b] =
                     [pc |-> "sending", chat_id |-> chat_id, connections |-> live,
                      i |-> 1, connection |-> walked[1], disconnected_sockets |-> <<>>,
                      start |-> live, sent |-> <<walked[1]>>, raised |-> {}]]
              /\ registry_result' = registry_result
         ELSE /\ broadcast' = broadcast
              /\ registry_result' =
                    [op |-> "broadcast", status |-> "no_connections", failed |-> {}]
    /\ UNCHANGED <<active_connections, ws_state>>
    /\ UNCHANGED <<seqVars, storeVars, eventVars>>

\* the send_text awaited by b returns or raises; the loop goes to its next
\* connection, or ends, disconnects the failed sockets and returns
SendEnd(b, raises) ==
    /\ broadcast[b].pc = "sending"
    /\ LET r == broadcast[b]
           walked == Snapshot(r.connections, Members(active_connections, r.chat_id))
           ds == IF raises THEN Append(r.disconnected_sockets, r.connection)
                 ELSE r.disconnected_sockets
           raised == IF raises THEN r.raised \cup {r.connection} ELSE r.raised IN
       IF r.i < Len(walked)
       THEN /\ broadcast' = [broadcast EXCEPT ![b] =
                   [r EXCEPT !.i = r.i + 1, !.connection = walked[r.i + 1],
                             !.disconnected_sockets = ds, !.raised = raised,
                             !.sent = Append(@, walked[r.i + 1])]]
            /\ UNCHANGED <<active_connections, registry_result>>
       ELSE LET d == DisconnectAll(active_connections, SocketsToDisconnect(ds), r.chat_id) IN
            /\ active_connections' = d.conns
            /\ broadcast' = [broadcast EXCEPT ![b] = NoBroadcast]
            /\ registry_result' =
                  [op |-> "broadcast",
                   status |-> IF d.branch = "raised" THEN "raised" ELSE "ok",
                   failed |-> raised]
    /\ UNCHANGED ws_state
    /\ UNCHANGED <<seqVars, storeVars, eventVars>>

SendReturns(b) == SendEnd(b, FALSE)
SendRaises(b) == SendEnd(b, TRUE)

RegistryNext ==
    \/ \E w \in Sockets : Connect(w) \/ HandleDisconnect(w)
    \/ \E b \in Broadcasters : BroadcastToChat(b) \/ SendReturns(b) \/ SendRaises(b)

\* the endpoints of the WebSockets with message loops that end by a
\* disconnect or by an error, and broadcasts to their rooms made one after
\* another
LoopNext ==
    \/ \E w \in Sockets :
          \/ Connect(w) \/ HandleDisconnect(w)
          \/ LoopFails(w) \/ CloseRaises(w) \/ CloseReturns(w)
    \/ BroadcastToChat("b1") \/ SendReturns("b1") \/ SendRaises("b1")

(***************************************************************************)
(* ChatService: reasoning and tool events of one room, as ChatEvent        *)
(* documents. Its methods are called one after another (the callback runs  *)
(* them through the operation sequencer): one coroutine. An action is one  *)
(* awaited repository call with the code up to the next; the broadcast     *)
(* that ends a method is taken with the write before it.                   *)
(***************************************************************************)
DocIds == 1..MaxEvents
\* headlines: "" is the empty string
Headlines == {"A", "B", "C"}
BeginContents == {"", "Thinking..."}
NewContents == {None, Some("")} \cup {Some(h) : h \in Headlines}
ReasoningStatuses == {"thinking", "complete"}
StatusArgs == {None} \cup {Some(st) : st \in ReasoningStatuses}

NoEventCall ==
    [pc |-> "idle", op |-> "none", message_id |-> 0, new_content |-> None,
     status |-> None, event |-> None, tool_name |-> ""]

NoEventResult == [op |-> "none", event |-> None]

\* an empty chat_events collection
EventInit ==
    /\ chat_events = [d \in DocIds |-> None]
    /\ ev_clock = 0
    /\ ev_call = NoEventCall
    /\ ev_result = NoEventResult
    /\ ev_sent = None

\* ChatEvent(...): the id is made by default_factory, created_at and
\* updated_at by theirs, at the instant of the call
NewChatEvent(id, type, content, payload, instant) ==
    [id |-> id, type |-> type, content |-> content, payload |-> payload,
     created_at |-> instant, updated_at |-> instant]

FreshDocIds == {d \in DocIds : chat_events[d] = None}

\* the method returns event (or None) after "await event.save()" and the
\* broadcast of its dump
EventReturn(op, event) ==
    /\ ev_call' = NoEventCall
    /\ ev_result' = [op |-> op, event |-> event]
    /\ ev_sent' = IF event # None THEN event ELSE ev_sent

\* send_reasoning_message -> _create_and_broadcast_message: create_event with
\* ReasoningPayload(trajectory=trajectory, status=status), type REASONING
SendReasoningMessage ==
    /\ ev_call.pc = "idle"
    /\ ev_clock < MaxEventOps
    /\ ev_clock' = ev_clock + 1
    /\ \E id \in FreshDocIds, content \in BeginContents, status \in ReasoningStatuses :
         LET payload == [trajectory |-> <<>>, status |-> status]
             event == NewChatEvent(id, "reasoning", content, Some(payload), ev_clock') IN
         /\ chat_events' = [chat_events EXCEPT ![id] = Some(event)]
         /\ EventReturn("send_reasoning_message", Some(event))
    /\ UNCHANGED <<seqVars, storeVars, registryVars>>

\* update_reasoning_message: "event = await get_event_by_id(message_id)" and
\* "if not event or event.type != ChatEventType.REASONING: return None"
UpdateReasoningMessage ==
    /\ ev_call.pc = "idle"
    /\ ev_clock < MaxEventOps
    /\ ev_clock' = ev_clock + 1
    /\ \E message_id \in DocIds, new_content \in NewContents, status \in StatusArgs :
         LET event == chat_events[message_id] IN
         IF event = None \/ event[1].type # "reasoning"
         THEN EventReturn("update_reasoning_message", None)
         ELSE /\ ev_call' = [NoEventCall EXCEPT !.pc = "urm_save",
                                !.op = "update_reasoning_message",
                                !.message_id = message_id, !.new_content = new_content,
                                !.status = status, !.event = event]
              /\ ev_result' = NoEventResult
              /\ UNCHANGED ev_sent
    /\ UNCHANGED chat_events
    /\ UNCHANGED <<seqVars, storeVars, registryVars>>

\* "payload = event.payload if event.payload else ReasoningPayload(...)", and
\* the same for a payload that is not a ReasoningPayload
ReasoningPayloadOf(event) ==
    IF event.payload # None /\ "trajectory" \in DOMAIN event.payload[1]
    THEN event.payload[1]
    ELSE [trajectory |-> <<>>, status |-> "thinking"]

\* truth value of an Optional[str]
TruthyStr(text) == text # None /\ text[1] # ""

\* "if new_content and event.content: payload.trajectory.append(event.content)"
AppendsAlways(new_content, content) == TRUE
AppendsOldContent(new_content, content) == TruthyStr(new_content) /\ content # ""

\* "if status is not None: payload.status = status"
StatusGiven(payload, status) == IF status # None THEN status[1] ELSE payload.status

\* "if new_content is not None: event.content = new_content"
ContentGiven(content, new_content) == IF new_content # None THEN new_content[1] ELSE content

\* the event update_reasoning_message saves
UpdatedReasoning(event, new_content, status, instant) ==
    LET payload == ReasoningPayloadOf(event)
        trajectory == IF AppendsOldContent(new_content, event.content)
                      THEN Append(payload.trajectory, event.content)
                      ELSE payload.trajectory IN
    [event EXCEPT !.content = ContentGiven(@, new_content),
                  !.payload = Some([trajectory |-> trajectory,
                                    status |-> StatusGiven(payload, status)]),
                  !.updated_at = instant]

\* update_reasoning_message: the changes to the event, "await event.save()"
\* and the broadcast
UpdateReasoningSave ==
    /\ ev_call.pc = "urm_save"
    /\ LET event == UpdatedReasoning(ev_call.event[1], ev_call.new_content,
                                     ev_call.status, ev_clock) IN
         /\ chat_events' = [chat_events EXCEPT ![event.id] = Some(event)]
         /\ EventReturn(ev_call.op, Some(event))
    /\ UNCHANGED ev_clock
    /\ UNCHANGED <<seqVars, storeVars, registryVars>>

ReasoningNext == SendReasoningMessage \/ UpdateReasoningMessage \/ UpdateReasoningSave

\* ---- tool events ----
ToolNames == {"search_web", "query_sql_db"}
\* the statuses on_tool_end gives an update: completed, or error on an exception
UpdateStatuses == {"completed", "error"}
\* output_payload: None or a dict
OutputPayloads == {None, Some("out")}
\* "limit=5" of the get_events_for_chat calls
ToolEventsLimit == 5

\* get_tool_display_name
get_tool_display_name(tool_name) ==
    IF tool_name = "search_web" THEN "Web Search"
    ELSE IF tool_name = "query_sql_db" THEN "SQL Query"
    ELSE tool_name

\* ToolExecution(tool_name=..., input_payload=..., status=ToolStatus.STARTED);
\* the input payload is left out, no method reads it
ToolExecution(tool_name, instant) ==
    [tool_name |-> tool_name, output_payload |-> None, status |-> "started",
     started_at |-> instant, completed_at |-> None]

\* send_tool_message: create_event of a TOOL event with one ToolExecution
SendToolMessage ==
    /\ ev_call.pc = "idle"
    /\ ev_clock < MaxEventOps
    /\ ev_clock' = ev_clock + 1
    /\ \E id \in FreshDocIds, tool_name \in ToolNames :
         LET payload == [status |-> "started",
                         tool_calls |-> <<ToolExecution(tool_name, ev_clock')>>]
             event == NewChatEvent(id, "tool", get_tool_display_name(tool_name),
                                   Some(payload), ev_clock') IN
         /\ chat_events' = [chat_events EXCEPT ![id] = Some(event)]
         /\ EventReturn("send_tool_message", Some(event))
    /\ UNCHANGED <<seqVars, storeVars, registryVars>>

\* get_events_for_chat(chat_id, limit, type=TOOL): the room's tool events,
\* latest created first, at most limit of them
ToolEvents == {chat_events[d][1] : d \in {e \in DocIds : chat_events[e] # None
                                                          /\ chat_events[e][1].type = "tool"}}
RECURSIVE SortedByCreatedAtDesc(_)
SortedByCreatedAtDesc(found) ==
    IF found = {} THEN <<>>
    ELSE LET latest == CHOOSE e \in found : \A f \in found : f.created_at <= e.created_at IN
         <<latest>> \o SortedByCreatedAtDesc(found \ {latest})
GetToolEvents(limit) ==
    LET sorted == SortedByCreatedAtDesc(ToolEvents) IN
    SubSeq(sorted, 1, IF limit < Len(sorted) THEN limit ELSE Len(sorted))

\* "tool_call.tool_name == tool_name and tool_call.status == ToolStatus.STARTED"
MatchesAnyStatus(tool_call, tool_name) == tool_call.tool_name = tool_name
MatchesStarted(tool_call, tool_name) ==
    tool_call.tool_name = tool_name /\ tool_call.status = "started"

\* "for tool_call in reversed(event.payload.tool_calls)": the index of the last
\* matching call of the event, 0 when there is none
LastStarted(event, tool_name) ==
    LET calls == event.payload[1].tool_calls
        hits == {i \in DOMAIN calls : MatchesStarted(calls[i], tool_name)} IN
    IF hits = {} THEN 0 ELSE CHOOSE i \in hits : \A j \in hits : j <= i

\* the changes send_tool_update and update_tool_event_by_id make to the call
\* and its event
ToolCallUpdated(event, i, status, output_payload, instant) ==
    LET payload == event.payload[1]
        tool_call == payload.tool_calls[i]
        updated == [tool_call EXCEPT
                      !.status = status,
                      !.output_payload = IF output_payload # None THEN output_payload ELSE @,
                      !.completed_at = IF status \in {"completed", "error"}
                                       THEN Some(instant) ELSE @] IN
    [event EXCEPT !.payload = Some([payload EXCEPT !.status = status,
                                                   !.tool_calls[i] = updated]),
                  !.updated_at = instant]

\* the method goes on to "await event.save()" with its changed event
EventGotoSave(op, tool_name, event) ==
    /\ ev_call' = [NoEventCall EXCEPT !.pc = "tool_save", !.op = op,
                                      !.tool_name = tool_name, !.event = Some(event)]
    /\ ev_result' = NoEventResult
    /\ UNCHANGED ev_sent

\* send_tool_update: get_events_for_chat, then the first event in that order
\* with a matching call is changed; "return None" without one
SendToolUpdate ==
    /\ ev_call.pc = "idle"
    /\ ev_clock < MaxEventOps
    /\ ev_clock' = ev_clock + 1
    /\ \E tool_name \in ToolNames, status \in UpdateStatuses, output_payload \in OutputPayloads :
         LET events == GetToolEvents(ToolEventsLimit)
             hits == {k \in DOMAIN events : LastStarted(events[k], tool_name) # 0} IN
         IF hits = {}
         THEN EventReturn("send_tool_update", None)
         ELSE LET event == events[CHOOSE k \in hits : \A l \in hits : k <= l] IN
              EventGotoSave("send_tool_update", tool_name,
                            ToolCallUpdated(event, LastStarted(event, tool_name),
                                            status, output_payload, ev_clock'))
    /\ UNCHANGED chat_events
    /\ UNCHANGED <<seqVars, storeVars, registryVars>>

\* update_tool_event_by_id: get_event_by_id, "if not event or event.type !=
\* ChatEventType.TOOL or not event.payload: return None", then the last
\* matching call is changed; "return None" without one
UpdateToolEventById ==
    /\ ev_call.pc = "idle"
    /\ ev_clock < MaxEventOps
    /\ ev_clock' = ev_clock + 1
    /\ \E event_id \in DocIds, tool_name \in ToolNames, status \in UpdateStatuses,
          output_payload \in OutputPayloads :
         LET event == chat_events[event_id] IN
         IF event = None \/ event[1].type # "tool" \/ event[1].payload = None
         THEN EventReturn("update_tool_event_by_id", None)
         ELSE IF LastStarted(event[1], tool_name) = 0
         THEN EventReturn("update_tool_event_by_id", None)
         ELSE EventGotoSave("update_tool_event_by_id", tool_name,
                            ToolCallUpdated(event[1], LastStarted(event[1], tool_name),
                                            status, output_payload, ev_clock'))
    /\ UNCHANGED chat_events
    /\ UNCHANGED <<seqVars, storeVars, registryVars>>

\* add_tool_call_to_event: "if tool_call.tool_name == tool_name: target_event =
\* event": the events with a call of the tool, whatever its status
HasCallOf(event, tool_name) ==
    \E i \in DOMAIN event.payload[1].tool_calls :
        event.payload[1].tool_calls[i].tool_name = tool_name

\* the changes add_tool_call_to_event makes to its target event
ToolCallAdded(event, tool_name, instant) ==
    LET payload == event.payload[1] IN
    [event EXCEPT !.payload = Some([payload EXCEPT
                                      !.status = "in_progress",
                                      !.tool_calls = Append(@, ToolExecution(tool_name, instant))]),
                  !.content = get_tool_display_name(tool_name),
                  !.updated_at = instant]

\* add_tool_call_to_event: get_events_for_chat, then the first event in that
\* order with a call of the tool gets the new call; without one the method
\* prints "Creating new trajectory" and returns None
AddToolCallToEvent ==
    /\ ev_call.pc = "idle"
    /\ ev_clock < MaxEventOps
    /\ ev_clock' = ev_clock + 1
    /\ \E tool_name \in ToolNames :
         LET events == GetToolEvents(ToolEventsLimit)
             hits == {k \in DOMAIN events : HasCallOf(events[k], tool_name)} IN
         IF hits = {}
         THEN EventReturn("add_tool_call_to_event", None)
         ELSE LET target_event == events[CHOOSE k \in hits : \A l \in hits : k <= l] IN
              EventGotoSave("add_tool_call_to_event", tool_name,
                            ToolCallAdded(target_event, tool_name, ev_clock'))
    /\ UNCHANGED chat_events
    /\ UNCHANGED <<seqVars, storeVars, registryVars>>

\* "await event.save()", the broadcast of the event and "return event"
ToolEventSave ==
    /\ ev_call.pc = "tool_save"
    /\ chat_events' = [chat_events EXCEPT ![ev_call.event[1].id] = ev_call.event]
    /\ EventReturn(ev_call.op, ev_call.event)
    /\ UNCHANGED ev_clock
    /\ UNCHANGED <<seqVars, storeVars, registryVars>>

\* the tool calls of a turn, as ChatService offers them
ToolNext ==
    \/ SendToolMessage \/ SendToolUpdate \/ UpdateToolEventById
    \/ AddToolCallToEvent \/ ToolEventSave

\* ---- the write and the broadcast of a facade call, as separate awaits ----
\* an exception of the awaited insert or save leaves the method: no facade
\* method has a try around its write
PropagatesNothing(raised) == FALSE
Propagates(raised) == raised

\* the method goes on to "await self.websocket_repository.broadcast_to_chat"
\* with the event it has written
EventGotoBroadcast(op, event) ==
    /\ ev_call' = [NoEventCall EXCEPT !.pc = "ev_broadcast", !.op = op,
                                      !.event = Some(event)]
    /\ ev_result' = NoEventResult
    /\ UNCHANGED ev_sent

\* the event a create call makes: send_reasoning_message's, with the content
\* on_module_start gives it and the default status, or send_tool_message's
NewEvents(instant) ==
    UNION {
      {NewChatEvent(id, "reasoning", "Thinking...",
                    Some([trajectory |-> <<>>, status |-> "thinking"]), instant)}
      \cup
      {NewChatEvent(id, "tool", get_tool_display_name(tool_name),
                    Some([status |-> "started",
                          tool_calls |-> <<ToolExecution(tool_name, instant)>>]), instant) :
         tool_name \in ToolNames}
      : id \in FreshDocIds}

\* _create_and_broadcast_message and send_tool_message: "await
\* create_event(...)", which inserts the event or raises
CreateEvent(raised) ==
    /\ ev_call.pc = "idle"
    /\ ev_clock < MaxEventOps
    /\ ev_clock' = ev_clock + 1
    /\ \E event \in NewEvents(ev_clock') :
         IF Propagates(raised)
         THEN /\ EventReturn("create_event", None)
              /\ UNCHANGED chat_events
         ELSE /\ chat_events' = [chat_events EXCEPT ![event.id] =
                                   IF raised THEN @ ELSE Some(event)]
              /\ EventGotoBroadcast("create_event", event)
    /\ UNCHANGED <<seqVars, storeVars, registryVars>>

CreateEventInserts == CreateEvent(FALSE)
CreateEventRaises == CreateEvent(TRUE)

\* "await event.save()" of update_reasoning_message and send_tool_update,
\* which writes the changed event or raises
SaveEvent(raised) ==
    /\ ev_call.pc \in {"urm_save", "tool_save"}
    /\ LET event == IF ev_call.pc = "urm_save"
                    THEN UpdatedReasoning(ev_call.event[1], ev_call.new_content,
                                          ev_call.status, ev_clock)
                    ELSE ev_call.event[1] IN
       IF Propagates(raised)
       THEN /\ EventReturn(ev_call.op, None)
            /\ UNCHANGED chat_events
       ELSE /\ chat_events' = [chat_events EXCEPT ![event.id] =
                                 IF raised THEN @ ELSE Some(event)]
            /\ EventGotoBroadcast(ev_call.op, event)
    /\ UNCHANGED ev_clock
    /\ UNCHANGED <<seqVars, storeVars, registryVars>>

SaveEventWrites == SaveEvent(FALSE)
SaveEventRaises == SaveEvent(TRUE)

\* "raw_event = event.model_dump(...)", "await broadcast_to_chat(message_json,
\* chat_id)" and "return event"
BroadcastEvent ==
    /\ ev_call.pc = "ev_broadcast"
    /\ EventReturn(ev_call.op, ev_call.event)
    /\ UNCHANGED <<chat_events, ev_clock>>
    /\ UNCHANGED <<seqVars, storeVars, registryVars>>

\* the event-producing calls of a turn, one at a time, with their awaits
FacadeNext ==
    \/ CreateEventInserts \/ CreateEventRaises
    \/ UpdateReasoningMessage \/ SendToolUpdate
    \/ SaveEventWrites \/ SaveEventRaises
    \/ BroadcastEvent

\* the state after construction: an idle sequencer, an empty Redis, an empty
\* registry and an empty chat_events collection
Init == SeqInit /\ StoreInit /\ RegistryInit /\ EventInit
\* construction followed by create_session and one create_chat
InitWithRoom == SeqInit /\ RoomInit /\ RegistryInit /\ EventInit

SeqSpec == Init /\ [][SeqNext]_vars

\* the event loop runs every ready task and every operation terminates
SeqFair ==
    /\ \A t \in Ops : WF_vars(DrainStart(t))
    /\ \A t \in Ops : WF_vars(OperationReturns(t) \/ OperationRaises(t))

SeqFairSpec == SeqSpec /\ SeqFair

MessageSpec == InitWithRoom /\ [][MessageNext]_vars

MemorySpec == InitWithRoom /\ [][MemoryNext]_vars

ChatSpec == Init /\ [][ChatNext]_vars

SessionSpec == Init /\ [][SessionNext]_vars

TeardownSpec == InitWithRoom /\ [][TeardownNext]_vars

RegistrySpec == Init /\ [][RegistryNext]_vars
IdentitySpec == Init /\ [][IdentityNext]_vars
ReasoningSpec == Init /\ [][ReasoningNext]_vars
ToolSpec == Init /\ [][ToolNext]_vars
ListSpec == InitWithRoom /\ [][ListNext]_vars
FailureSpec == InitWithRoom /\ [][FailureNext]_vars
ErrorSpec == InitWithRoom /\ [][ErrorNext]_vars
FacadeSpec == Init /\ [][FacadeNext]_vars
ToolTurnSpec == Init /\ [][ToolTurnNext]_vars
TurnSpec == Init /\ [][TurnNext]_vars
CountSpec == Init /\ [][CountNext]_vars
UpsertSpec == InitWithRoom /\ [][UpsertNext]_vars
SeparationSpec == Init /\ [][SeparationNext]_vars

\* an awaited websocket.close returns or raises
LoopFair == \A w \in Sockets : WF_vars(CloseReturns(w) \/ CloseRaises(w))

LoopFairSpec == Init /\ [][LoopNext]_vars /\ LoopFair

Awaiting == {t \in Ops : drain_task[t] = "awaiting"}

(***************************************************************************)
(* Claims about the operation sequencer                                    *)
(***************************************************************************)
Idle == ~processing_queue /\ operation_queue = <<>>
\* op was appended by _queue_operation while the drain loop was running
EnqueuedWhileDraining(k) == k <= enqueued /\ drain_task[k] = "none"

\* C1: operation_func is called on the operations in exactly the order they
\* were handed to _queue_operation: the i-th operation executed is the i-th
\* operation enqueued, whatever the interleaving and however long an operation
\* stays suspended.
C1_FifoOrder == \A i \in 1..Len(executed) : executed[i] = i

\* C1 witness: three operations ran in order, the one running has passed all
\* its suspension points and another, enqueued during the drain, still waits.
C1_Witness ==
    /\ Len(executed) >= 3
    /\ \E t \in Ops : drain_task[t] = "awaiting" /\ op_io[t] = MaxIO
    /\ \E k \in Range(operation_queue) : EnqueuedWhileDraining(k)

\* C2: at most one drain task is inside an operation_func at any time.
C2_NoConcurrentOperations == Cardinality(Awaiting) <= 1

\* C2 witness: two tasks had been created before either ran; the first is in
\* an operation and the second has run and returned at once.
C2_Witness ==
    /\ drain_task[1] = "awaiting"
    /\ drain_task[2] = "done"
    /\ 2 \in Range(operation_queue) \cup Range(executed)

\* C3: an operation enqueued while the sequencer drains is eventually executed,
\* and no operation is executed twice or before one enqueued earlier.
C3_EnqueuedWhileDrainingRuns ==
    /\ \A k \in Ops : EnqueuedWhileDraining(k) ~> (k \in Range(executed))
    /\ [](\A i, j \in 1..Len(executed) : i < j => executed[i] < executed[j])

\* C3 witness: an operation that was enqueued during a drain has been executed.
C3_Witness ==
    \E k \in Ops : EnqueuedWhileDraining(k) /\ k \in Range(executed) /\ Idle

\* C4: an operation that raises is discarded, no drain task dies of the
\* exception, and the sequencer goes on to run everything enqueued and comes
\* back to idle.
C4_FailureIsolated ==
    /\ [](\A t \in Ops : drain_task[t] # "crashed")
    /\ [](\A k \in failed : k \notin Range(operation_queue))
    /\ \A k \in Ops :
         (k \in failed) ~> (Idle /\ Range(executed) = 1..enqueued)

\* C4 witness: an operation raised, a later one was executed all the same and
\* the sequencer is idle again.
C4_Witness ==
    /\ Idle
    /\ \E k \in failed : \E j \in Range(executed) : j > k /\ j \notin failed

(***************************************************************************)
(* Claims about the event store                                            *)
(***************************************************************************)
\* coroutine p takes a step
Steps(p) == pc'[p] # pc[p]
\* the stored message a running call is about
Stored(c) == messages[c.chat_id][c.message_id[1]]
\* the ids of the events stored in a room
EventIds(chat_id) == {m \in MessageIds : messages[chat_id][m] # None}

\* C5: upsert_message goes to update_message exactly when the id is stored in
\* the room; its update writes the caller's content and metadata on the stored
\* message and leaves the stored timestamp (and id and role) as they were; its
\* add stores a message under the caller's id with the caller's content, role,
\* metadata and timestamp (the clock's reading when the caller gave none); no
\* other step of the call changes a message.
C5_UpsertUpdatesOrCreates ==
    [][\A p \in Procs :
         /\ (pc[p] = "idle" /\ call'[p].op = "upsert_message") =>
               /\ pc'[p] = IF Stored(call'[p]) # None THEN "um_get" ELSE "am_get"
               /\ messages' = messages
         /\ (call[p].op = "upsert_message" /\ Steps(p)) =>
               LET c == call[p] IN
               CASE pc[p] = "um_hset_msg" ->
                      /\ Stored(c) # None
                      /\ messages' = [messages EXCEPT ![c.chat_id][c.message_id[1]] =
                            Some([Stored(c)[1] EXCEPT
                                    !.content = c.content,
                                    !.metadata = StoredMetadata(c.metadata)])]
                 [] pc[p] = "am_chat" ->
                      /\ messages' = messages
                      /\ pc'[p] = "am_hset_msg" =>
                           /\ call'[p].message_id = c.message_id
                           /\ call'[p].timestamp =
                                IF c.timestamp = None THEN Some(now) ELSE c.timestamp
                 [] pc[p] = "am_hset_msg" ->
                      messages' = [messages EXCEPT ![c.chat_id][c.message_id[1]] =
                            Some([id |-> c.message_id[1], content |-> c.content,
                                  role |-> c.role, timestamp |-> c.timestamp[1],
                                  metadata |-> StoredMetadata(c.metadata)])]
                 [] OTHER -> messages' = messages
    ]_vars

\* C5 witness: an upsert on a stored id has written its content and metadata,
\* and the message still carries a timestamp older than the clock.
C5_Witness ==
    \E p \in Procs :
        /\ pc[p] = "um_reread"
        /\ call[p].op = "upsert_message"
        /\ Stored(call[p])[1].content = call[p].content
        /\ Stored(call[p])[1].metadata = StoredMetadata(call[p].metadata)
        /\ Stored(call[p])[1].metadata.len > 0
        /\ Stored(call[p])[1].timestamp < now

\* C6: when upsert_message writes the content a stored event already has, and
\* the clock has moved on since that event was written, the room holds the same
\* events as before, the event's created_at is what it was and its updated_at
\* is later than it was.
C6_UpsertTwiceAdvancesUpdatedAt ==
    [][\A p \in Procs :
         LET c == call[p] IN
         (/\ c.op = "upsert_message"
          /\ pc[p] = "um_hset_msg"
          /\ Steps(p)
          /\ Stored(c)[1].content = c.content
          /\ Stored(c)[1].timestamp < now) =>
             LET before == ChatEventOf(Stored(c)[1])
                 after == ChatEventOf(messages'[c.chat_id][c.message_id[1]][1]) IN
             /\ {m \in MessageIds : messages'[c.chat_id][m] # None} = EventIds(c.chat_id)
             /\ after.created_at = before.created_at
             /\ after.updated_at > before.updated_at
    ]_vars

\* C7: the write of update_message leaves the event's created_at as it was.
C7_UpdateKeepsCreatedAt ==
    [][\A p \in Procs :
         LET c == call[p] IN
         (c.via = "update_message" /\ pc[p] = "um_hset_msg" /\ Steps(p)) =>
             ChatEventOf(messages'[c.chat_id][c.message_id[1]][1]).created_at
                = ChatEventOf(Stored(c)[1]).created_at
    ]_vars

\* C8: when the session's memory usage plus the UTF-8 length of the content
\* plus the length of the serialized metadata is over the cap, add_message
\* raises the memory error and has changed no message, no chat field and not
\* the session's memory usage.
C8_MemoryLimitRejects ==
    [][\A p \in Procs :
         LET c == call[p] IN
         (/\ c.op = "add_message"
          /\ pc[p] = "am_refresh"
          /\ Steps(p)
          /\ session[1].memory_usage_bytes + Utf8Len(c.content)
               + (IF Truthy(c.metadata) THEN JsonDumps(c.metadata[1]).len ELSE 0)
               > MaxMemoryBytes) =>
             /\ pc'[p] = "idle"
             /\ result' = [op |-> "add_message", status |-> "memory_limit"]
             /\ messages' = messages
             /\ chats' = chats
             /\ session'[1].memory_usage_bytes = session[1].memory_usage_bytes
    ]_vars

\* C8 witness: add_message has raised the memory error in a session that holds
\* events and whose usage is under the cap.
C8_Witness ==
    /\ result = [op |-> "add_message", status |-> "memory_limit"]
    /\ \A p \in Procs : pc[p] = "idle"
    /\ EventIds(1) # {}
    /\ session[1].memory_usage_bytes > 0
    /\ session[1].memory_usage_bytes < MaxMemoryBytes

\* C9 as claimed: the session's memory usage is never over the cap.
C9_MemoryNeverOverCap == session[1].memory_usage_bytes <= MaxMemoryBytes

\* C9 amended: when add_message or store_screenshot adds its size, the usage
\* is over the cap by no more than what other calls added between this call's
\* check and its increment; calls that do not overlap keep usage within the cap.
C9_IncrementWithinCheckedCap ==
    [][\A p \in Procs :
         (pc[p] \in {"am_incr_mem", "ss_incr_mem"} /\ Steps(p)) =>
             session'[1].memory_usage_bytes
                <= MaxMemoryBytes
                   + (session[1].memory_usage_bytes - call[p].read[1].memory_usage_bytes)
    ]_vars

\* C9 witness: a call is about to add its size after another call has added
\* bytes since this call's check.
C9_Witness ==
    \E p \in Procs :
        /\ pc[p] \in {"am_incr_mem", "ss_incr_mem"}
        /\ session[1].memory_usage_bytes > call[p].read[1].memory_usage_bytes

\* C10 as claimed: the session's room-count is never over the cap.
C10_ChatCountNeverOverCap ==
    session # None => session[1].chat_count <= MaxChatsPerSession

\* C10 amended: a create_chat that read a room-count at the cap raises the quota
\* error and creates nothing; one that read less adds one room, which leaves
\* the count over the cap by no more than what other calls added between its
\* read and its increment.
C10_CreateChatChecksQuota ==
    [][\A p \in Procs :
         /\ (/\ pc[p] = "cc_refresh"
             /\ Steps(p)
             /\ call[p].read[1].chat_count >= MaxChatsPerSession) =>
               /\ pc'[p] = "idle"
               /\ result' = [op |-> "create_chat", status |-> "max_chats"]
               /\ chats' = chats
               /\ session'[1].chat_count = session[1].chat_count
         /\ (pc[p] = "cc_incr" /\ Steps(p)) =>
               session'[1].chat_count
                  <= MaxChatsPerSession
                     + (session[1].chat_count - call[p].read[1].chat_count)
    ]_vars

\* C10 witness: create_chat has raised the quota error on a session that holds
\* as many rooms as the cap allows.
C10_Witness ==
    /\ result = [op |-> "create_chat", status |-> "max_chats"]
    /\ session[1].chat_count = MaxChatsPerSession
    /\ Cardinality({c \in ChatIds : chats[c] # None}) = MaxChatsPerSession

\* C11 as claimed: the room's message-count is never over the cap.
C11_MessageCountNeverOverCap ==
    \A c \in MessageChatIds :
        chats[c] # None => chats[c][1].message_count <= MaxMessagesPerChat

\* C11 amended: an add_message that read a message-count at the cap raises the
\* message-limit error and has written no message, no chat field and no memory
\* usage; one that read less adds one, which leaves the count over the cap by
\* no more than what other calls added between its read and its increment.
C11_AddMessageChecksQuota ==
    [][\A p \in Procs :
         LET c == call[p] IN
         /\ (/\ pc[p] = "am_chat"
             /\ Steps(p)
             /\ chats[c.chat_id] # None
             /\ chats[c.chat_id][1].message_count >= MaxMessagesPerChat) =>
               /\ pc'[p] = "idle"
               /\ result' = [op |-> c.op, status |-> "max_messages"]
               /\ messages' = messages
               /\ chats' = chats
               /\ session'[1].memory_usage_bytes = session[1].memory_usage_bytes
         /\ (pc[p] = "am_incr_count" /\ Steps(p)) =>
               chats'[c.chat_id][1].message_count
                  <= MaxMessagesPerChat
                     + (chats[c.chat_id][1].message_count - c.chat[1].message_count)
    ]_vars

\* C11 witness: add_message has raised the message-limit error on a room that
\* counts as many messages as the cap allows.
C11_Witness ==
    /\ result = [op |-> "add_message", status |-> "max_messages"]
    /\ chats[1][1].message_count = MaxMessagesPerChat

C13_AbsentSessionIsNone ==
    [][/\ session = None =>
            \A p \in Procs : ~(pc[p] = "idle" /\ call'[p].op = "get_session")
       /\ (result'.op = "get_session" /\ result' # result /\ pc' = pc) =>
            /\ session = None
            /\ result'.status = "none"
            /\ <<session, chats, messages, screenshots>>' =
                  <<session, chats, messages, screenshots>>
       /\ result'.op = "get_session" => result'.status \in {"none", "found"}
    ]_vars

\* C13 witness: a lookup has returned None after the session's window has
\* passed or the session was deleted.
C13_Witness ==
    /\ result = [op |-> "get_session", status |-> "none"]
    /\ session = None
    /\ now > 1

\* C14: when delete_session completes, no room, no event and no screenshot of
\* the session is left in the store.
C14_DeleteSessionRemovesAll ==
    [][\A p \in Procs :
         (pc[p] = "ds_execute" /\ Steps(p)) =>
             /\ session' = None
             /\ \A c \in ChatIds : chats'[c] = None
             /\ \A c \in MessageChatIds : \A m \in MessageIds : messages'[c][m] = None
             /\ \A i \in ScreenshotIds : screenshots'[i] = None
    ]_vars

\* C15: when delete_chat completes, the room's key is gone (get_chat finds
\* nothing) and so is every message key of the room (get_messages lists
\* nothing), for calls that do not overlap with other calls on the room.
C15_DeleteChatRemovesRoomAndEvents ==
    [][\A p \in Procs :
         LET c == call[p] IN
         (pc[p] = "dc_execute" /\ Steps(p)) =>
             /\ result' = [op |-> "delete_chat", status |-> "ok"]
             /\ chats'[c.chat_id] = None
             /\ c.chat_id \in MessageChatIds =>
                   \A m \in MessageIds : messages'[c.chat_id][m] = None
    ]_vars

\* C15 witness: delete_chat has deleted the room that held the session's
\* events, and their screenshots with it.
C15_Witness ==
    /\ result = [op |-> "delete_chat", status |-> "ok"]
    /\ session # None
    /\ session[1].memory_usage_bytes > 0
    /\ chats[1] = None
    /\ \A i \in ScreenshotIds : screenshots[i] = None

\* the operations that change a room
RoomOps == {"create_chat", "update_chat_name", "delete_chat"}

\* C16: while the session is absent, create_chat, update_chat_name and
\* delete_chat end at their first read with the session-expired error and
\* write nothing, and no room of the session is in the store.
C16_RoomOpsNeedSession ==
    [][session = None =>
         /\ \A c \in ChatIds : chats[c] = None
         /\ \A p \in Procs : ~(pc[p] = "idle" /\ call'[p].op \in RoomOps)
         /\ (result'.op \in RoomOps /\ result' # result /\ pc' = pc) =>
               /\ result'.status = "invalid_session"
               /\ <<session, chats, messages, screenshots>>' =
                     <<session, chats, messages, screenshots>>
    ]_vars

(***************************************************************************)
(* Claims about the connection registry                                    *)
(***************************************************************************)
\* the set of connections registered for a room
MemberSet(conns, chat_id) == Range(Members(conns, chat_id))
\* broadcast_to_chat of task b returns from its send loop
BroadcastReturns(b) == broadcast[b].pc = "sending" /\ broadcast'[b].pc = "idle"

\* C17: disconnect of a connection that is not in its room's list, or whose
\* room has no entry (as after a removal by a broadcast), raises nothing and
\* leaves the directory as it was.
C17_LeaveIsIdempotent ==
    [][\A w \in Sockets :
         (/\ ws_state[w].state = "open"
          /\ ws_state'[w].state = "closed"
          /\ w \notin MemberSet(active_connections, ws_state[w].chat_id)) =>
             /\ active_connections' = active_connections
             /\ registry_result'.op = "disconnect"
             /\ registry_result'.status =
                   IF active_connections[ws_state[w].chat_id] = None
                   THEN "room_not_found" ELSE "already_removed"
    ]_vars

\* C17 witness: a connection that a broadcast had removed has been
\* disconnected again while its room still had other members.
C17_Witness ==
    /\ registry_result.op = "disconnect"
    /\ registry_result.status = "already_removed"

\* C18: a broadcast_to_chat that sends at all starts with the members the room
\* has at that moment, and returns only when it has attempted a send to each
\* of them, in order, whatever sends raised and whatever connects and
\* disconnects happened while it was suspended.
C18_BroadcastReachesSnapshot ==
    [][\A b \in Broadcasters :
         /\ (broadcast[b].pc = "idle" /\ broadcast'[b].pc = "sending") =>
               broadcast'[b].start = Members(active_connections, broadcast'[b].chat_id)
         /\ (broadcast[b].pc = "sending" /\ broadcast'[b].pc = "sending") =>
               broadcast'[b].start = broadcast[b].start
         /\ BroadcastReturns(b) => broadcast[b].sent = broadcast[b].start
    ]_vars

\* C18 witness: a broadcast is at its last send after an earlier send raised
\* and after the room's membership changed under it.
C18_Witness ==
    \E b \in Broadcasters :
        /\ broadcast[b].pc = "sending"
        /\ broadcast[b].raised # {}
        /\ broadcast[b].sent = broadcast[b].start
        /\ Members(active_connections, broadcast[b].chat_id) # broadcast[b].start

\* C19: when broadcast_to_chat returns, no connection whose send raised is in
\* the room's list, every other connection that was in the list is still in
\* it, and no other room has changed; a broadcast to a room without members
\* raises nothing and changes nothing.
C19_BroadcastPrunesFailed ==
    [][/\ \A b \in Broadcasters :
            LET chat_id == broadcast[b].chat_id
                pruned == registry_result'.failed IN
            /\ BroadcastReturns(b) =>
                  /\ registry_result'.op = "broadcast"
                  /\ registry_result'.status = "ok"
                  /\ pruned \cap MemberSet(active_connections', chat_id) = {}
                  /\ MemberSet(active_connections, chat_id) \ pruned
                        = MemberSet(active_connections', chat_id)
                  /\ \A r \in RegistryRooms \ {chat_id} :
                        active_connections'[r] = active_connections[r]
            /\ (broadcast[b].pc = "idle" /\ broadcast'[b].pc = "sending") =>
                  Members(active_connections, broadcast'[b].chat_id) # <<>>
       /\ (registry_result'.status = "no_connections"
              /\ registry_result' # registry_result) =>
            /\ registry_result'.op = "broadcast"
            /\ UNCHANGED <<active_connections, ws_state, broadcast>>
    ]_vars

\* C19 witness: a broadcast has returned after a send raised, and the room of
\* the connection it removed still has a member.
C19_Witness ==
    /\ registry_result.op = "broadcast"
    /\ registry_result.status = "ok"
    /\ registry_result.failed # {}
    /\ \E r \in RegistryRooms :
          /\ active_connections[r] # None
          /\ \E w \in registry_result.failed : ws_state[w].chat_id = r

\* C20: no room id maps to an empty list.
C20_NoEmptyRoom ==
    \A r \in RegistryRooms : active_connections[r] # Some(<<>>)

\* C20 witness: a room whose only connection left has no entry.
C20_Witness ==
    \E w \in Sockets :
        /\ ws_state[w].state = "closed"
        /\ active_connections[ws_state[w].chat_id] = None
        /\ registry_result.status = "removed"

(***************************************************************************)
(* Claims about the identifier mapping of rooms                            *)
(***************************************************************************)
\* the rooms a lookup listed whose object id is the one looked up
RoomsOfObjectId(c) ==
    {k.chat_id : k \in {l \in c.keys : l.kind = "chat"
                                        /\ uuid_to_objectid(l.chat_id) = c.object_id}}

\* C21: a reverse lookup of the object id of a room that the session holds
\* when the lookup begins returns the id of that room.
C21_LookupRoundTrip ==
    [][\A p \in Procs :
          (call[p].op = "objectid_to_uuid" /\ pc'[p] = "idle" /\ pc[p] # "idle")
          => \A id \in RoomsOfObjectId(call[p]) :
                 /\ result'.status = "ok"
                 /\ result'.value = id]_vars

\* the lookup listed no room with the object id looked up
NoRoomOfObjectId(c) ==
    \A k \in c.keys : k.kind = "chat" => uuid_to_objectid(k.chat_id) # c.object_id

\* C22: a REST endpoint or the WebSocket message handler whose lookup finds no
\* room for the object id answers the client with room-not-found.
C22_CallersReportNotFound ==
    [][\A p \in Procs :
          (/\ call[p].op = "objectid_to_uuid" /\ pc'[p] = "idle" /\ pc[p] # "idle"
           /\ call[p].via \in RestCallers \cup {"process_message"}
           /\ NoRoomOfObjectId(call[p]))
          => result'.status = "chat_not_found"]_vars

(***************************************************************************)
(* Claims about reasoning and tool events                                  *)
(***************************************************************************)
\* update_reasoning_message saves its event in this step
ReasoningSaved == ev_call.pc = "urm_save" /\ ev_call'.pc = "idle"

TrajectoryOf(event) == event.payload[1].trajectory

\* the event has not been updated since it was created
NeverUpdated(event) == event.updated_at = event.created_at

\* C23 (as amended): an update with a non-empty headline appends the stored
\* headline to the trajectory when that headline is non-empty, and replaces the
\* content; an update with the empty headline replaces the content and appends
\* nothing; an update without headline changes neither.
C23_UpdateAppendsStoredHeadline ==
    [][ReasoningSaved =>
         LET before == chat_events[ev_call.message_id][1]
             after == chat_events'[ev_call.message_id][1]
             new_content == ev_call.new_content IN
         /\ new_content = None
            => after.content = before.content /\ TrajectoryOf(after) = TrajectoryOf(before)
         /\ new_content # None => after.content = new_content[1]
         /\ (new_content # None /\ (new_content[1] = "" \/ before.content = ""))
            => TrajectoryOf(after) = TrajectoryOf(before)
         /\ (new_content # None /\ new_content[1] # "" /\ before.content # "")
            => TrajectoryOf(after) = Append(TrajectoryOf(before), before.content)]_vars

\* C23 witness: the event begun with the empty headline has had the updates
\* "A", "B", "C": its trajectory is ["A", "B"] and its content "C".
C23_Witness ==
    \E d \in DocIds :
        /\ chat_events[d] # None
        /\ chat_events[d][1].type = "reasoning"
        /\ chat_events[d][1].content = "C"
        /\ TrajectoryOf(chat_events[d][1]) = <<"A", "B">>

\* C23 (as stated): the trajectory holds the headlines of the earlier updates
\* and nothing else: the first update of an event sets the content and leaves
\* the trajectory empty, a later one appends the headline it replaces.
C23_TrajectoryIsEarlierUpdates ==
    [][(ReasoningSaved /\ TruthyStr(ev_call.new_content)) =>
         LET before == chat_events[ev_call.message_id][1]
             after == chat_events'[ev_call.message_id][1] IN
         /\ after.content = ev_call.new_content[1]
         /\ NeverUpdated(before) => TrajectoryOf(after) = <<>>
         /\ (~NeverUpdated(before) /\ before.content # "")
            => TrajectoryOf(after) = Append(TrajectoryOf(before), before.content)]_vars

StatusOf(event) == event.payload[1].status

\* C24: a reasoning event whose status is complete stays complete.
C24_CompleteStaysComplete ==
    [][\A d \in DocIds :
          (/\ chat_events[d] # None
           /\ chat_events[d][1].type = "reasoning"
           /\ StatusOf(chat_events[d][1]) = "complete")
          => StatusOf(chat_events'[d][1]) = "complete"]_vars

ToolCallsOf(event) == event.payload[1].tool_calls

TerminalStatuses == {"completed", "error"}

HasEventOf(tool_name) == \E e \in ToolEvents : HasCallOf(e, tool_name)

\* C26: a call of a tool that has an event is appended to that event and makes
\* no new event (send_tool_message, which on_tool_start runs for every call,
\* makes one only for a tool without event); a call of a tool without event
\* makes an event (add_tool_call_to_event never returns without one).
C26_CallAppendedOrEventCreated ==
    [][/\ (ev_call.pc = "idle" /\ ev_result'.op = "send_tool_message"
           /\ ev_clock' = ev_clock + 1)
          => ~HasEventOf(ToolCallsOf(ev_result'.event[1])[1].tool_name)
       /\ (ev_call.pc = "idle" /\ ev_result'.op = "add_tool_call_to_event"
           /\ ev_clock' = ev_clock + 1)
          => ev_result'.event # None]_vars

(***************************************************************************)
(* Claims about listing and the failures of an append                      *)
(***************************************************************************)
\* the events of a room as get_messages reports them
ListedMessages(chat_id) ==
    {ListedMessage(messages[chat_id][m][1]) : m \in EventIds(chat_id)}

\* value is the window [offset, offset + limit) of a listing of all, newest
\* first: its items are events of all, each once, in non-increasing order of
\* timestamp; it has as many items as the window holds; the events left out
\* are offset events no older than its first item and events no newer than
\* its last
IsWindowOf(value, all, offset, limit) ==
    LET left == all \ Range(value)
        holds == IF Cardinality(all) <= offset THEN 0
                 ELSE IF Cardinality(all) - offset < limit THEN Cardinality(all) - offset
                 ELSE limit IN
    /\ \A i \in DOMAIN value : value[i] \in all
    /\ \A i, j \in DOMAIN value : i # j => value[i] # value[j]
    /\ \A i, j \in DOMAIN value : i < j => value[i].timestamp >= value[j].timestamp
    /\ Len(value) = holds
    /\ value # <<>>
       => \E skipped \in SUBSET left :
             /\ Cardinality(skipped) = offset
             /\ \A e \in skipped : e.timestamp >= value[1].timestamp
             /\ \A e \in left \ skipped : e.timestamp <= value[Len(value)].timestamp

\* C27: get_messages returns the window [offset, offset + limit) of the room's
\* stored events, newest first.
C27_ListReturnsWindow ==
    [][/\ \A p \in Procs :
            (call[p].op = "get_messages" /\ pc'[p] = "idle")
            => IsWindowOf(result'.value, ListedMessages(call[p].chat_id),
                          call[p].offset, call[p].limit)
       /\ ((\A p \in Procs : pc[p] = "idle" /\ pc'[p] = "idle") /\ now' = now
           /\ result'.op = "get_messages")
          => /\ result'.value = <<>>
             /\ \A c \in MessageChatIds : ListedMessages(c) = {}]_vars

\* C27 witness: one event, of a user, has been appended and the listing that
\* just returned has exactly that event, with created_at equal to updated_at.
C27_Witness ==
    /\ result.op = "get_messages"
    /\ pc["p1"] = "idle"
    /\ Cardinality(ListedMessages(1)) = 1
    /\ Len(result.value) = 1
    /\ result.value[1] \in ListedMessages(1)
    /\ ChatEventOf(result.value[1]).author = "user"
    /\ ChatEventOf(result.value[1]).content = result.value[1].content
    /\ ChatEventOf(result.value[1]).created_at = ChatEventOf(result.value[1]).updated_at

\* the call of coroutine p fails on this step at a Redis command that follows
\* its first write
FailsAfterWrite(p) ==
    /\ pc[p] \in AwaitsAfterFirstWrite
    /\ pc'[p] = "idle"
    /\ result'.status = "storage_error"

\* C28: when an append or an update fails after one of its writes has been
\* made, the store shows none of its effects: an append leaves no event record
\* under the id it drew, the room as get_chat read it and the memory usage as
\* check_memory_limit read it; an update leaves the event record as it read it.
C28_NoPartialWrite ==
    [][\A p \in Procs :
          FailsAfterWrite(p) =>
             LET c == call[p] IN
             /\ (c.via = "add_message" /\ c.fresh # "")
                => /\ messages'[c.chat_id][c.fresh] = None
                   /\ chats'[c.chat_id] = c.chat
                   /\ session'[1].memory_usage_bytes = c.read[1].memory_usage_bytes
             /\ c.via = "update_message"
                => messages'[c.chat_id][c.message_id[1]] = c.read]_vars

\* C29: the failure of an append tells its kind. An absent session yields
\* session-expired; a memory error is reported only when the usage read plus
\* the size of the event is over the cap, a message-count error only when the
\* room is at its cap, and not-found only for a room that is not stored, in a
\* session that is.
C29_AppendFailuresByKind ==
    [][\A p \in Procs :
          (call[p].op = "service_add_message" /\ pc'[p] = "idle") =>
             LET c == call[p]
                 code == AppErrorCode(result'.status) IN
             /\ (pc[p] \in {"sam_chat", "am_get"} /\ session = None)
                => code = "SESSION_EXPIRED"
             /\ code = "MEMORY_LIMIT_EXCEEDED"
                => /\ c.read # None
                   /\ c.read[1].memory_usage_bytes + c.size > MaxMemoryBytes
             /\ code = "MESSAGE_LIMIT_EXCEEDED"
                => /\ chats[c.chat_id] # None
                   /\ chats[c.chat_id][1].message_count >= MaxMessagesPerChat
             /\ code = "CHAT_NOT_FOUND"
                => chats[c.chat_id] = None /\ session # None]_vars

(***************************************************************************)
(* The states of the operation sequencer                                   *)
(***************************************************************************)
\* a drain task has been created and has not run yet
Scheduled == {t \in Ops : drain_task[t] = "created"}

\* C30: the sequencer is idle or draining. The flag is set exactly while one
\* drain task is inside its loop; the task that leaves the loop leaves the flag
\* false and the queue empty; and whenever the flag is false and the queue is
\* not empty, a drain task is scheduled.
C30_IdleDrainingIdle ==
    /\ [](processing_queue <=> Awaiting # {})
    /\ []((~processing_queue /\ operation_queue # <<>>) => Scheduled # {})
    /\ [][\A t \in Ops :
            (drain_task[t] = "awaiting" /\ drain_task'[t] # "awaiting")
            => (~processing_queue' /\ operation_queue' = <<>>)]_vars

\* C30 witness: the sequencer went idle -> draining -> idle twice: the second
\* operation was queued during the first drain, the third after it had ended,
\* and all three have run.
C30_Witness ==
    /\ Idle
    /\ drain_task[1] = "done" /\ drain_task[2] = "none" /\ drain_task[3] = "done"
    /\ Len(executed) = 3
    /\ Scheduled = {}

(***************************************************************************)
(* Claims about the facade's write and broadcast                           *)
(***************************************************************************)
\* the facade call hands an event to broadcast_to_chat on this step
Broadcasts == ev_call.pc = "ev_broadcast" /\ ev_call'.pc = "idle"

\* the write of the facade call raises on this step
WriteRaises ==
    /\ ev_call.pc \in {"idle", "urm_save", "tool_save"}
    /\ ev_call'.pc # "urm_save" /\ ev_call'.pc # "tool_save"
    /\ (ev_call.pc = "idle" => ev_clock' # ev_clock)
    /\ chat_events' = chat_events

\* C31: a facade call broadcasts the event it has just written: at the
\* broadcast the event document in the store is the broadcast payload; nothing
\* is handed to the broadcast at any other step; and a call whose write raised
\* ends without a broadcast.
C31_WriteThenBroadcast ==
    [][/\ Broadcasts => /\ ev_sent' = ev_call.event
                        /\ chat_events[ev_call.event[1].id] = ev_sent'
       /\ ev_sent' # ev_sent => Broadcasts
       /\ WriteRaises => ev_call'.pc = "idle" /\ ev_sent' = ev_sent]_vars

\* C31 witness: an update of a reasoning event, made after another call had
\* come in between, has been saved and then broadcast.
C31_Witness ==
    /\ ev_result.op = "update_reasoning_message"
    /\ ev_result.event # None
    /\ ev_sent = ev_result.event
    /\ ev_sent[1].updated_at > ev_sent[1].created_at + 1
    /\ chat_events[ev_sent[1].id] = ev_sent

(***************************************************************************)
(* Claims about the operations of a turn                                   *)
(***************************************************************************)
\* the operations that have run to their end
Finished == {k \in Range(executed) : \A t \in Ops : current_op[t] # k}

\* the update_tool_message operation of the invocation has run
ToolUpdateRan(call_id) ==
    \E k \in Finished : /\ op_closure[k].type = "update_tool_message"
                        /\ op_closure[k].call_id = call_id

\* C32: once the update_tool_message of a tool invocation has run, the event
\* that the invocation's create_tool_message made, under the message id it
\* drew, is stored and its tool call is completed or in error.
C32_ToolEndUpdatesOwnEvent ==
    \A c \in CallIds :
       ToolUpdateRan(c) =>
          \E d \in DocIds :
             /\ d = tool_made[c]
             /\ chat_events[d] # None
             /\ \E i \in DOMAIN ToolCallsOf(chat_events[d][1]) :
                   ToolCallsOf(chat_events[d][1])[i].status \in TerminalStatuses

\* C33: when the turn has ended, by the return of process_user_message or by
\* its error event, every operation queued in the turn has run to its end.
C33_TurnEndsDrained ==
    turn # "running" => (Idle /\ Finished = 1..enqueued)

(***************************************************************************)
(* Claims about the summary fields and the counters                        *)
(***************************************************************************)
\* an Optional timestamp does not move backward
NotEarlier(before, after) ==
    before = None \/ (after # None /\ after[1] >= before[1])

\* C34: no step of add_message, update_message or upsert_message moves a
\* room's updated_at or latest_message_timestamp backward.
C34_SummaryNeverBackward ==
    [][\A c \in MessageChatIds :
          (chats[c] # None /\ chats'[c] # None) =>
             /\ chats'[c][1].updated_at >= chats[c][1].updated_at
             /\ NotEarlier(chats[c][1].latest_message_timestamp,
                           chats'[c][1].latest_message_timestamp)]_vars

\* no call is between two of its awaits
Quiescent == \A p \in Procs : pc[p] = "idle"

\* the rooms that exist in the session
Rooms == {c \in ChatIds : chats[c] # None}

\* C35: whenever no create_chat or delete_chat call is under way, the
\* session's chat_count is the number of rooms that exist and is not negative.
C35_ChatCountIsRooms ==
    (Quiescent /\ session # None) =>
        /\ session[1].chat_count = Cardinality(Rooms)
        /\ session[1].chat_count >= 0

\* the events stored in a room
StoredEvents(chat_id) == {m \in MessageIds : messages[chat_id][m] # None}

\* C36: whenever no call is under way, a room's message_count is the number
\* of events stored in the room.
C36_MessageCountIsEvents ==
    Quiescent =>
        \A c \in MessageChatIds :
           chats[c] # None => chats[c][1].message_count = Cardinality(StoredEvents(c))

\* C37: no step of update_message, called directly or by upsert_message for an
\* id that exists, changes the room's message_count or the session's
\* memory_usage_bytes, and the call never ends with a quota error.
C37_UpdateLeavesCounters ==
    [][\A p \in Procs :
         /\ ((call[p].via = "update_message" \/ call'[p].via = "update_message")
                 /\ Steps(p)) =>
               /\ session' = session
               /\ \A c \in MessageChatIds :
                     chats'[c][1].message_count = chats[c][1].message_count
         /\ ((call[p].via = "update_message" \/ result'.op = "update_message")
                 /\ pc'[p] = "idle" /\ Steps(p)) =>
               result'.status \in {"ok", "message_not_found"}
    ]_vars

\* an upsert_message for an existing id has written the event and the summary
\* while the room is at its event quota and the new content and metadata
\* would not pass check_memory_limit
C37_Witness ==
    LET c == call["p1"] IN
    /\ pc["p1"] = "um_reread"
    /\ c.op = "upsert_message"
    /\ MessageLimitReached(chats[c.chat_id][1].message_count)
    /\ ~WithinMemoryLimit(session[1].memory_usage_bytes, MessageSize(c.content, c.metadata))

\* the step is create_session: no coroutine moves and a whole record is stored
IsCreateSession ==
    /\ pc' = pc
    /\ session' # None
    /\ "created_at" \in DOMAIN session'[1]

\* C38: once the session key is gone it stays gone until create_session: no
\* step of get_session or delete_session stores a record under it.
C38_GoneStaysGone ==
    [][(session = None /\ session' # None) => IsCreateSession]_vars

(***************************************************************************)
(* Claims about the sessions' separation                                   *)
(***************************************************************************)
\* the object ids of rooms of other sessions
OtherObjectIds == {uuid_to_objectid(c) : c \in OtherChatIds}

\* C39: the reverse lookup made with the session's token returns only ids of
\* rooms stored under that token, and ends without a room for an object id
\* that only a room of another session has.
C39_LookupStaysInSession ==
    [][\A p \in Procs :
         (call[p].op = "objectid_to_uuid" /\ pc'[p] = "idle" /\ Steps(p)) =>
            /\ result'.status = "ok" =>
                  /\ result'.value \notin OtherChatIds
                  /\ \E ch \in call'[p].chats \cup call[p].chats \cup
                                {chats[c][1] : c \in Rooms} : ch.id = result'.value
            /\ (/\ call[p].object_id \in OtherObjectIds
                /\ \A c \in Rooms : uuid_to_objectid(c) # call[p].object_id)
               => result'.status # "ok"
    ]_vars

\* a lookup of the object id of another session's room that has listed the
\* session's keys and read a room of the session
C39_Witness ==
    /\ pc["p1"] = "otu_hgetall"
    /\ call["p1"].object_id \in OtherObjectIds
    /\ call["p1"].chats # {}
    /\ \A c \in Rooms : uuid_to_objectid(c) # call["p1"].object_id

(***************************************************************************)
(* Claims about the end of a connection                                    *)
(***************************************************************************)
\* the socket is in the list of some room
Registered(w) ==
    \E r \in RegistryRooms : w \in Range(Members(active_connections, r))

\* the message loop of the socket's endpoint has ended
LoopEnded(w) ==
    ws_state[w].state \in {"closing", "endpoint_closing", "closed", "closed_after_error"}

\* the endpoint of the socket has returned
EndpointReturned(w) == ws_state[w].state \in {"closed", "closed_after_error"}

\* C40: a socket whose message loop has ended, by a disconnect or by an
\* unhandled error, is eventually in no room's list, and is in none once its
\* endpoint has returned.
C40_EndedLoopUnregisters ==
    /\ [](\A w \in Sockets : EndpointReturned(w) => ~Registered(w))
    /\ \A w \in Sockets : LoopEnded(w) ~> ~Registered(w)

\* a socket whose loop ended with an error and whose close raised has been
\* removed by handle_disconnect, with another socket left in the room
C40_Witness ==
    \E w \in Sockets :
        /\ ws_state[w].state = "closed_after_error"
        /\ registry_result = [op |-> "disconnect", status |-> "removed", failed |-> {}]
        /\ ~Registered(w)
        /\ active_connections[ws_state[w].chat_id] # None

====
